---------------------------- MODULE Spec2Model ----------------------------
(***************************************************************************)
(* A model of winpipe's wire-protocol core: the record codec               *)
(* (wire.rs: Message::encode / Message::decode), the streaming decoder     *)
(* (wire.rs: WireDecoder), the protocol engine (compositor.rs:             *)
(* Compositor::handle_message), the connection tasks of the server         *)
(* (main.rs: run_server / handle_client), the pixel-frame channel           *)
(* (render.rs: RenderFrame, FrameDecoder, RenderClient), the event channel *)
(* of the library server (connection.rs: Server::run, Connection::run) and *)
(* the mirror buffers (buffer.rs: MirrorBuffer).                           *)
(*                                                                         *)
(* Octets are integers 0..255 and octet strings are sequences of them.     *)
(* A 32-bit word that the code shifts or masks is kept as its two 16-bit    *)
(* halves, so that what the shift drops is dropped here as well; object    *)
(* ids are integers, and the inputs keep them below 2^31.                  *)
(***************************************************************************)
EXTENDS Integers, Sequences, FiniteSets, TLC

VARIABLES
    \* --- Message::encode / Message::decode applied to one record
    m_in,        \* the record handed to Message::encode
    m_wire,      \* the octets Message::encode returned
    m_out,       \* the Result Message::decode returned
    m_pc,        \* "new" -> "encoded" -> "decoded"
    \* --- WireDecoder fed from a stream
    prefix,      \* octets the client sent ahead of the records (input)
    sent,        \* the records whose encodings follow the prefix (input)
    pending,     \* octets of the stream not yet pushed
    buffer,      \* WireDecoder.buffer
    received,    \* every record decode() has returned, in order
    result,      \* what the last decode() call returned
    size_seen,   \* the size field the last decode() call peeked (-1: none)
    panicked,    \* a decode() call indexed or split out of range
    cleared,     \* number of decode() calls that discarded the buffer
    op,          \* the last WireDecoder operation: "new", "push", "decode",
                 \* "clear"
    pushes,      \* number of push() calls so far
    clears,      \* number of clear() calls so far
    \* --- Compositor handling the requests of one connection
    globals,           \* Compositor.globals
    objects,           \* Compositor.objects: object id -> interface name
    allocator,         \* Compositor.allocator.next_id
    next_global_name,  \* Compositor.next_global_name
    request,           \* the record being handled (msg), None between requests
    interface,         \* the interface handle_message resolved for it
    responses,         \* the records handle_message returned for it
    chain,             \* how far the requests handled so far have gone along
                       \* get_registry (1), bind of xdg_wm_base (2),
                       \* get_xdg_surface (3), each after the one before
    \* --- the connection tasks run_server spawns, one per connection
    script,       \* what each client sends over its connection (input)
    inbound,      \* octets each client has sent that its task has not read yet
    peer_closed,  \* the client has closed its end of the stream
    task,         \* where each task is: "listening" (not accepted yet), "read",
                  \* "decode", or returned: "closed", "read_failed", "write_failed"
    decoder,      \* handle_client's decoder: WireDecoder.buffer
    compositor,   \* handle_client's compositor
    outbound,     \* octets each task has written to its client
    handled,      \* the requests each task has decoded and handled, in order
    corrupt,      \* the task's decoder has met a size field outside [8, 65536]
    response_data, \* the octets the task's write_all is writing; << >> when
                  \* no write is in progress
    written,      \* how many of them write_all has written so far
    \* --- RenderFrame::encode / RenderFrame::decode applied to one frame
    f_in,         \* the frame handed to RenderFrame::encode
    f_wire,       \* the octets handed to RenderFrame::decode
    f_out,        \* the Result RenderFrame::decode returned
    f_pc,         \* "new" -> "encoded" -> "decoded", or "wire" -> "parsed"
    \* --- FrameDecoder fed from a stream
    fd_garbage,   \* octets sent ahead of the frames (input)
    fd_frames,    \* the frames whose encodings follow the garbage (input)
    fd_pending,   \* octets of the stream not yet pushed
    fd_buffer,    \* FrameDecoder.buffer
    fd_received,  \* every frame decode() has returned, in order
    fd_result,    \* what the last decode() call returned
    fd_op,        \* the last FrameDecoder operation: "new", "push", "decode",
                  \* "idle" when the last decode() returned None and left the
                  \* buffer as it was
    \* --- RenderClient and the presenter it connects to
    rc_stream,    \* RenderClient.stream: 0 for None, k for Some(the k-th
                  \* connection the presenter accepted)
    rc_peers,     \* the octets the presenter has received, per connection
    rc_frame,     \* the frame handed to the last send_frame()
    rc_result,    \* the Result the last operation returned
    rc_op,        \* the last operation: "new", "connect", "send_frame",
                  \* "disconnect"
    rc_ops,       \* number of operations so far
    \* --- the read loop of handle_client on a long stream
    lp_items,     \* the stream the client sends, as its items (input)
    lp_lo,        \* offset in the stream of the first octet WireDecoder.buffer
                  \* holds
    lp_hi,        \* octets of the stream read and pushed so far; the buffer
                  \* holds the octets lp_lo .. lp_hi - 1
    lp_pc,        \* "read", "decode" (in the while-let loop), "closed"
    lp_result,    \* what the last decode() call returned
    lp_reads,     \* number of reads so far
    \* --- the event channel of Server::run and Connection::run
    compression,  \* ConnectionConfig.compression: "None" or "Fast" (input)
    next_client_id, \* Server.next_client_id
    acceptor,     \* 0: Server::run waits in accept(); id: it has accepted
                  \* client id and is sending Connected{id}
    accept_errors, \* accept() calls that returned an error since the last
                  \* connection was accepted
    capacity,     \* the capacity the channel was made with (input)
    events,       \* every event sent into the channel, in order
    taken,        \* how many of them the receiver has taken out
    waiters,      \* the sends waiting for room, oldest first: the task (0 for
                  \* Server::run, the client id for a connection task) and
                  \* the event it is sending
    rx_closed,    \* the receiver of the channel was dropped
    conn_script,  \* the records each client sends (input)
    conn_stream,  \* octets each client has sent that were not read yet
    conn_decoder, \* Connection.decoder's buffer, per client
    conn_data,    \* the data of the current turn of Connection::run's loop
    conn_pc,      \* per client: "none", "read", "decode", "raw", "finished"
                  \* (run returned), "closed" (the task has ended)
    conn_inflated, \* per client: some read was replaced by decompressed data
    \* --- one MirrorBuffer and the mirror of it on the other side
    mirror,       \* the MirrorBuffer that update() is called on
    replica,      \* the MirrorBuffer that apply_delta() is called on
    delta,        \* the Option<BufferDelta> the last calculate_delta() returned
    delta_src,    \* the buffer as it was when calculate_delta() was called
    mb_panic,     \* an operation on a buffer panicked
    mb_op,        \* the last call of the exchange: "new", "update",
                  \* "calculate_delta", "apply_delta"
    mb_updates,   \* number of update() calls so far
    mb_regions    \* number of update_region() calls made by themselves

codecVars   == << m_in, m_wire, m_out, m_pc >>
decoderVars == << prefix, sent, pending, buffer, received, result, size_seen,
                  panicked, cleared, op, pushes, clears >>
engineVars  == << globals, objects, allocator, next_global_name >>
compVars    == << engineVars, request, interface, responses, chain >>
writeVars   == << response_data, written >>
serverVars  == << script, inbound, peer_closed, task, decoder, compositor,
                  outbound, handled, corrupt, writeVars >>
frameVars   == << f_in, f_wire, f_out, f_pc >>
frameDecoderVars == << fd_garbage, fd_frames, fd_pending, fd_buffer, fd_received,
                       fd_result, fd_op >>
clientVars  == << rc_stream, rc_peers, rc_frame, rc_result, rc_op, rc_ops >>
renderVars  == << frameVars, frameDecoderVars, clientVars >>
loopVars    == << lp_items, lp_lo, lp_hi, lp_pc, lp_result, lp_reads >>
channelVars == << compression, next_client_id, acceptor, accept_errors, capacity,
                  events, taken, waiters, rx_closed, conn_script, conn_stream, conn_decoder, conn_data,
                  conn_pc, conn_inflated >>
mirrorVars  == << mirror, replica, delta, delta_src, mb_panic, mb_op, mb_updates,
                  mb_regions >>
libVars     == << loopVars, channelVars, mirrorVars >>
vars == << codecVars, decoderVars, compVars, serverVars, renderVars, libVars >>

---------------------------------------------------------------------------
(* Program constants                                                       *)

HEADER_SIZE == 8

MAX_MESSAGE_SIZE == 65536

\* 2^16: the width of the size and opcode halves of the size_opcode word
U16 == 256 * 256

---------------------------------------------------------------------------
(* Bounds of the model                                                     *)

\* longest sequence of records in one stream
MaxMsgs == 2

\* largest chunk (other than "all the rest") handed to one push()
MaxChunk == 3

\* most push() calls on one stream; the last allowed push takes the rest
MaxPushes == 4

\* most clear() calls on one WireDecoder
MaxClears == 1

\* longest raw prefix of arbitrary octets
MaxRaw == 8

\* connections the server serves at once
MaxConns == 2

\* pixel frames sent through one FrameDecoder
MaxFrames == 2

\* operations performed on one RenderClient
MaxOps == 4

\* read() calls on one long stream; the last allowed read takes what is left
\* or fills the read buffer
MaxReads == 4

\* clients Server::run accepts
MaxClients == 2

\* update() calls on one MirrorBuffer
MaxUpdates == 2

\* update_region() calls made by themselves on the two buffers
MaxRegionCalls == 1

---------------------------------------------------------------------------
(* Little-endian helpers                                                   *)

\* the two octets of a 16-bit half, low octet first
half_le(h) == << h % 256, h \div 256 >>

\* the 16-bit half stored at b[at], b[at+1]
half_at(b, at) == b[at] + 256 * b[at + 1]

\* u32::to_le_bytes / write_u32::<LittleEndian>
to_le_bytes(n) == half_le(n % U16) \o half_le(n \div U16)

\* u32::from_le_bytes / read_u32::<LittleEndian> of the four octets at b[at..at+3]
from_le_bytes(b, at) == half_at(b, at) + U16 * half_at(b, at + 2)

\* Option<Message>
None == [some |-> FALSE]

Some(msg) == [some |-> TRUE, msg |-> msg]

\* Message::new
Message_new(object_id, opcode, payload) ==
    [object_id |-> object_id, opcode |-> opcode, payload |-> payload, fd_count |-> 0]

\* Message::wire_size
wire_size(msg) == HEADER_SIZE + Len(msg.payload)

\* the size_opcode word of Message::encode, ((wire_size as u32) << 16) | opcode,
\* as its halves. The u32 shift drops the bits above bit 31, so the high half
\* is the low 16 bits of the size; the low half is the opcode.
size_opcode_of(msg) == [hi |-> wire_size(msg) % U16, lo |-> msg.opcode]

\* Message::encode
Message_encode(msg) ==
    to_le_bytes(msg.object_id)
        \o half_le(size_opcode_of(msg).lo) \o half_le(size_opcode_of(msg).hi)
        \o msg.payload

\* Result<Message>
Ok(msg) == [ok |-> TRUE, msg |-> msg]

Err(why) == [ok |-> FALSE, err |-> why]

\* Message::decode
Message_decode(data) ==
    IF Len(data) < HEADER_SIZE THEN Err("Message too short")
    ELSE
      LET object_id   == from_le_bytes(data, 1)
          size        == half_at(data, 7)    \* size_opcode >> 16
          opcode      == half_at(data, 5)    \* size_opcode & 0xFFFF
      IN  IF size < HEADER_SIZE THEN Err("Invalid message size")
          ELSE IF size > MAX_MESSAGE_SIZE THEN Err("Message too large")
          ELSE IF Len(data) < size THEN Err("Incomplete message")
          ELSE Ok(Message_new(object_id, opcode, SubSeq(data, HEADER_SIZE + 1, size)))

---------------------------------------------------------------------------
(* WireDecoder                                                             *)

\* WireDecoder::push
WireDecoder_push(buf, data) == buf \o data

\* WireDecoder::clear
WireDecoder_clear(buf) == << >>

\* the size validation of WireDecoder::decode
Mut_SizeInvalid(size) == size > MAX_MESSAGE_SIZE

SizeInvalid(size) == size < HEADER_SIZE \/ size > MAX_MESSAGE_SIZE

\* a completeness test that waits for one octet past the record
Mut_NeedMoreStrict(buf, size) == Len(buf) <= size

\* the completeness test of WireDecoder::decode
Mut_NeedMore(buf, size) == Len(buf) < size - HEADER_SIZE

NeedMore(buf, size) == Len(buf) < size

\* a split that leaves the last octet taken at the front of the buffer
Mut_split_to(buf, at) ==
    [msg_data |-> SubSeq(buf, 1, at), rest |-> SubSeq(buf, at, Len(buf))]

\* BytesMut::split_to: the first at octets, and what stays in the buffer
split_to(buf, at) ==
    [msg_data |-> SubSeq(buf, 1, at), rest |-> SubSeq(buf, at + 1, Len(buf))]

\* WireDecoder::decode: the buffer afterwards, the value returned, the size
\* field peeked, whether BytesMut::split_to was asked for more than is
\* buffered (it panics then), and whether the buffer was discarded as corrupt.
WireDecoder_decode(buf) ==
    IF Len(buf) < HEADER_SIZE
    THEN [buffer |-> buf, ret |-> None, size |-> -1, panic |-> FALSE,
          discarded |-> FALSE]
    ELSE
      LET size == half_at(buf, 7)    \* size_opcode >> 16
      IN  IF SizeInvalid(size)
          THEN [buffer |-> << >>, ret |-> None, size |-> size, panic |-> FALSE,
                discarded |-> TRUE]
          ELSE IF NeedMore(buf, size)
          THEN [buffer |-> buf, ret |-> None, size |-> size, panic |-> FALSE,
                discarded |-> FALSE]
          ELSE IF size > Len(buf)
          THEN [buffer |-> buf, ret |-> None, size |-> size, panic |-> TRUE,
                discarded |-> FALSE]
          ELSE
            LET split == split_to(buf, size)
                r     == Message_decode(split.msg_data)
            IN  [buffer |-> split.rest,
                 ret    |-> IF r.ok THEN Some(r.msg) ELSE None,
                 size   |-> size,
                 panic  |-> FALSE,
                 discarded |-> FALSE]

\* WireDecoder::buffered
buffered == Len(buffer)

---------------------------------------------------------------------------
(* Compositor                                                              *)

\* str::as_bytes of the strings the engine packs into replies
as_bytes(s) ==
    CASE s = "wl_compositor" ->
            << 119, 108, 95, 99, 111, 109, 112, 111, 115, 105, 116, 111, 114 >>
      [] s = "wl_subcompositor" ->
            << 119, 108, 95, 115, 117, 98, 99, 111, 109, 112, 111, 115, 105, 116, 111, 114 >>
      [] s = "wl_shm" -> << 119, 108, 95, 115, 104, 109 >>
      [] s = "wl_output" -> << 119, 108, 95, 111, 117, 116, 112, 117, 116 >>
      [] s = "wl_seat" -> << 119, 108, 95, 115, 101, 97, 116 >>
      [] s = "wl_data_device_manager" ->
            << 119, 108, 95, 100, 97, 116, 97, 95, 100, 101, 118, 105, 99, 101, 95,
               109, 97, 110, 97, 103, 101, 114 >>
      [] s = "xdg_wm_base" -> << 120, 100, 103, 95, 119, 109, 95, 98, 97, 115, 101 >>
      [] s = "wp_viewporter" ->
            << 119, 112, 95, 118, 105, 101, 119, 112, 111, 114, 116, 101, 114 >>
      [] s = "zwp_linux_dmabuf_v1" ->
            << 122, 119, 112, 95, 108, 105, 110, 117, 120, 95, 100, 109, 97, 98, 117,
               102, 95, 118, 49 >>
      [] s = "Winpipe" -> << 87, 105, 110, 112, 105, 112, 101 >>
      [] s = "Virtual Display" ->
            << 86, 105, 114, 116, 117, 97, 108, 32, 68, 105, 115, 112, 108, 97, 121 >>

\* while payload.len() % 4 != 0 { payload.push(0); }
RECURSIVE pad4(_)
pad4(payload) ==
    IF Len(payload) % 4 # 0 THEN pad4(Append(payload, 0)) ELSE payload

\* a string appended without the padding
Mut_push_string_unpadded(payload, s) ==
    payload \o to_le_bytes(Len(as_bytes(s)) + 1) \o as_bytes(s) \o << 0 >>

\* a string appended with a length that leaves the NUL out
Mut_push_string(payload, s) ==
    pad4(payload \o to_le_bytes(Len(as_bytes(s))) \o as_bytes(s) \o << 0 >>)

\* a string appended to a payload: u32 length with its NUL, the octets, the
\* NUL, then zeros until the payload's length is a multiple of 4
push_string(payload, s) ==
    pad4(payload \o to_le_bytes(Len(as_bytes(s)) + 1) \o as_bytes(s) \o << 0 >>)

\* an insert that rebuilds the table from the new entry alone
Mut_insert(objs, id, iface) == [k \in { id } |-> iface]

\* HashMap::insert
insert(objs, id, iface) ==
    [k \in (DOMAIN objs) \cup { id } |-> IF k = id THEN iface ELSE objs[k]]

\* ObjectAllocator::new
ObjectAllocator_new == 2

\* register_global taking the name after the increment
Mut_register_global(comp, iface, version) ==
    [globals |-> Append(comp.globals,
                        [name |-> comp.next_global_name + 1, interface |-> iface,
                         version |-> version]),
     next_global_name |-> comp.next_global_name + 1]

\* Compositor::register_global, on the pair (globals, next_global_name)
register_global(comp, iface, version) ==
    [globals |-> Append(comp.globals,
                        [name |-> comp.next_global_name, interface |-> iface,
                         version |-> version]),
     next_global_name |-> comp.next_global_name + 1]

\* the register_global calls of Compositor::new, in order
StandardGlobals ==
    << << "wl_compositor", 5 >>, << "wl_subcompositor", 1 >>, << "wl_shm", 1 >>,
       << "wl_output", 4 >>, << "wl_seat", 8 >>, << "wl_data_device_manager", 3 >>,
       << "xdg_wm_base", 5 >>, << "wp_viewporter", 1 >>, << "zwp_linux_dmabuf_v1", 4 >> >>

RECURSIVE register_all(_, _)
register_all(comp, todo) ==
    IF todo = << >> THEN comp
    ELSE register_all(register_global(comp, Head(todo)[1], Head(todo)[2]), Tail(todo))

\* Compositor::new
Compositor_new ==
    LET comp == register_all([globals |-> << >>, next_global_name |-> 1], StandardGlobals)
    IN  [globals |-> comp.globals,
         objects |-> [k \in { 1 } |-> "wl_display"],
         allocator |-> ObjectAllocator_new,
         next_global_name |-> comp.next_global_name]

\* the payload of one wl_registry.global event
global_payload(global) ==
    push_string(to_le_bytes(global.name), global.interface) \o to_le_bytes(global.version)

\* send_output_info emitting done before scale
Mut_send_output_info(output_id) ==
    LET geometry ==
            push_string(
                push_string(to_le_bytes(0) \o to_le_bytes(0) \o to_le_bytes(1920)
                                \o to_le_bytes(1080) \o to_le_bytes(0),
                            "Winpipe"),
                "Virtual Display") \o to_le_bytes(0)
        mode == to_le_bytes(3) \o to_le_bytes(1920) \o to_le_bytes(1080)
                    \o to_le_bytes(60000)
        scale == to_le_bytes(1)
    IN  << Message_new(output_id, 0, geometry),
           Message_new(output_id, 1, mode),
           Message_new(output_id, 2, << >>),
           Message_new(output_id, 3, scale) >>

\* Compositor::send_output_info
send_output_info(output_id) ==
    LET geometry ==
            push_string(
                push_string(to_le_bytes(0) \o to_le_bytes(0) \o to_le_bytes(1920)
                                \o to_le_bytes(1080) \o to_le_bytes(0),
                            "Winpipe"),
                "Virtual Display") \o to_le_bytes(0)
        mode == to_le_bytes(3) \o to_le_bytes(1920) \o to_le_bytes(1080)
                    \o to_le_bytes(60000)
        scale == to_le_bytes(1)
    IN  << Message_new(output_id, 0, geometry),
           Message_new(output_id, 1, mode),
           Message_new(output_id, 3, scale),
           Message_new(output_id, 2, << >>) >>

\* find with g.name >= name
RECURSIVE Mut_find_global(_, _, _)
Mut_find_global(gl, name, i) ==
    IF i > Len(gl) THEN 0
    ELSE IF gl[i].name >= name THEN i
    ELSE Mut_find_global(gl, name, i + 1)

\* self.globals.iter().find(|g| g.name == name): the index of the first match,
\* 0 if there is none
RECURSIVE find_global(_, _, _)
find_global(gl, name, i) ==
    IF i > Len(gl) THEN 0
    ELSE IF gl[i].name = name THEN i
    ELSE find_global(gl, name, i + 1)

\* what one arm of handle_message yields: the object table afterwards and
\* the responses returned
Handled(objs, resp) == [objects |-> objs, responses |-> resp]

\* sync with a serial that counts the callbacks
Mut_sync_arm(objs, msg) ==
    IF Len(msg.payload) >= 4
    THEN LET callback_id == from_le_bytes(msg.payload, 1)
             serial == 1 + Cardinality({ k \in DOMAIN objs : objs[k] = "wl_callback" })
         IN  Handled(insert(objs, callback_id, "wl_callback"),
                     << Message_new(callback_id, 0, to_le_bytes(serial)) >>)
    ELSE Handled(objs, << >>)

\* ("wl_display", 0): wl_display.sync
sync_arm(objs, msg) ==
    IF Len(msg.payload) >= 4
    THEN LET callback_id == from_le_bytes(msg.payload, 1)
             serial == 1
         IN  Handled(insert(objs, callback_id, "wl_callback"),
                     << Message_new(callback_id, 0, to_le_bytes(serial)) >>)
    ELSE Handled(objs, << >>)

\* ("wl_display", 1): wl_display.get_registry
get_registry_arm(gl, objs, msg) ==
    IF Len(msg.payload) >= 4
    THEN LET registry_id == from_le_bytes(msg.payload, 1)
         IN  Handled(insert(objs, registry_id, "wl_registry"),
                     [i \in 1..Len(gl) |->
                         Message_new(registry_id, 0, global_payload(gl[i]))])
    ELSE Handled(objs, << >>)

\* ("wl_registry", 0): wl_registry.bind
bind_arm(gl, objs, msg) ==
    IF Len(msg.payload) >= 4
    THEN LET name == from_le_bytes(msg.payload, 1)
             found == find_global(gl, name, 1)
             payload_len == Len(msg.payload)
         IN  IF found # 0
             THEN IF payload_len >= 8
                  THEN LET global == gl[found]
                           new_id == from_le_bytes(msg.payload, payload_len - 3)
                           bound == insert(objs, new_id, global.interface)
                       IN  IF global.interface = "wl_output"
                           THEN Handled(bound, send_output_info(new_id))
                           ELSE Handled(bound, << >>)
                  ELSE Handled(objs, << >>)
             ELSE Handled(objs, << >>)
    ELSE Handled(objs, << >>)

\* create_surface binding its id as an xdg_surface
Mut_create_surface_arm(objs, msg) ==
    IF Len(msg.payload) >= 4
    THEN Handled(insert(objs, from_le_bytes(msg.payload, 1), "xdg_surface"), << >>)
    ELSE Handled(objs, << >>)

\* ("wl_compositor", 0): wl_compositor.create_surface
create_surface_arm(objs, msg) ==
    IF Len(msg.payload) >= 4
    THEN Handled(insert(objs, from_le_bytes(msg.payload, 1), "wl_surface"), << >>)
    ELSE Handled(objs, << >>)

\* create_pool announcing the formats on the new pool
Mut_create_pool_arm(objs, msg) ==
    IF Len(msg.payload) >= 8
    THEN LET pool_id == from_le_bytes(msg.payload, 1)
             formats == << 0, 1 >>
         IN  Handled(insert(objs, pool_id, "wl_shm_pool"),
                     [i \in 1..Len(formats) |->
                         Message_new(pool_id, 0, to_le_bytes(formats[i]))])
    ELSE Handled(objs, << >>)

\* ("wl_shm", 0): wl_shm.create_pool
create_pool_arm(objs, msg) ==
    IF Len(msg.payload) >= 8
    THEN LET pool_id == from_le_bytes(msg.payload, 1)
             formats == << 0, 1 >>
         IN  Handled(insert(objs, pool_id, "wl_shm_pool"),
                     [i \in 1..Len(formats) |->
                         Message_new(msg.object_id, 0, to_le_bytes(formats[i]))])
    ELSE Handled(objs, << >>)

\* get_xdg_surface content with the new id alone
Mut_get_xdg_surface_arm_short(objs, msg) ==
    IF Len(msg.payload) >= 4
    THEN Handled(insert(objs, from_le_bytes(msg.payload, 1), "xdg_surface"), << >>)
    ELSE Handled(objs, << >>)

\* get_xdg_surface binding only when the surface named is a wl_surface
Mut_get_xdg_surface_arm(objs, msg) ==
    IF /\ Len(msg.payload) >= 8
       /\ from_le_bytes(msg.payload, 5) \in DOMAIN objs
       /\ objs[from_le_bytes(msg.payload, 5)] = "wl_surface"
    THEN Handled(insert(objs, from_le_bytes(msg.payload, 1), "xdg_surface"), << >>)
    ELSE Handled(objs, << >>)

\* ("xdg_wm_base", 2): xdg_wm_base.get_xdg_surface
get_xdg_surface_arm(objs, msg) ==
    IF Len(msg.payload) >= 8
    THEN Handled(insert(objs, from_le_bytes(msg.payload, 1), "xdg_surface"), << >>)
    ELSE Handled(objs, << >>)

\* get_toplevel sending the xdg_surface configure first
Mut_get_toplevel_arm(objs, msg) ==
    IF Len(msg.payload) >= 4
    THEN LET toplevel_id == from_le_bytes(msg.payload, 1)
             toplevel_conf == to_le_bytes(1920) \o to_le_bytes(1080) \o to_le_bytes(0)
             serial == 1
         IN  Handled(insert(objs, toplevel_id, "xdg_toplevel"),
                     << Message_new(msg.object_id, 0, to_le_bytes(serial)),
                        Message_new(toplevel_id, 0, toplevel_conf) >>)
    ELSE Handled(objs, << >>)

\* ("xdg_surface", 1): xdg_surface.get_toplevel
get_toplevel_arm(objs, msg) ==
    IF Len(msg.payload) >= 4
    THEN LET toplevel_id == from_le_bytes(msg.payload, 1)
             toplevel_conf == to_le_bytes(1920) \o to_le_bytes(1080) \o to_le_bytes(0)
             serial == 1
         IN  Handled(insert(objs, toplevel_id, "xdg_toplevel"),
                     << Message_new(toplevel_id, 0, toplevel_conf),
                        Message_new(msg.object_id, 0, to_le_bytes(serial)) >>)
    ELSE Handled(objs, << >>)

\* ("xdg_surface", 4): xdg_surface.ack_configure
ack_configure_arm(objs, msg) == Handled(objs, << >>)

\* commit taking the surface out of service
Mut_commit_arm(objs, msg) == Handled(insert(objs, msg.object_id, "wl_buffer"), << >>)

\* ("wl_surface", 6): wl_surface.commit
commit_arm(objs, msg) == Handled(objs, << >>)

\* an id that is not in the table resolved as the display
Mut_lookup(objs, id) == IF id \in DOMAIN objs THEN objs[id] ELSE "wl_display"

\* self.objects.get(&msg.object_id).map(|s| s.as_str()).unwrap_or("unknown")
lookup(objs, id) == IF id \in DOMAIN objs THEN objs[id] ELSE "unknown"

\* Compositor::handle_message: the match on (interface, msg.opcode)
handle_message(gl, objs, msg) ==
    LET iface == lookup(objs, msg.object_id)
    IN  CASE iface = "wl_display" /\ msg.opcode = 0 -> sync_arm(objs, msg)
          [] iface = "wl_display" /\ msg.opcode = 1 -> get_registry_arm(gl, objs, msg)
          [] iface = "wl_registry" /\ msg.opcode = 0 -> bind_arm(gl, objs, msg)
          [] iface = "wl_compositor" /\ msg.opcode = 0 -> create_surface_arm(objs, msg)
          [] iface = "wl_shm" /\ msg.opcode = 0 -> create_pool_arm(objs, msg)
          [] iface = "xdg_wm_base" /\ msg.opcode = 2 -> get_xdg_surface_arm(objs, msg)
          [] iface = "xdg_surface" /\ msg.opcode = 1 -> get_toplevel_arm(objs, msg)
          [] iface = "xdg_surface" /\ msg.opcode = 4 -> ack_configure_arm(objs, msg)
          [] iface = "wl_surface" /\ msg.opcode = 6 -> commit_arm(objs, msg)
          [] OTHER -> Handled(objs, << >>)

\* the requests handled so far, read along the chain get_registry, bind of
\* xdg_wm_base, get_xdg_surface: the stage reached once a request that
\* resolved to iface has been handled at stage c
advance(c, gl, iface, msg) ==
    LET found == IF Len(msg.payload) >= 4
                 THEN find_global(gl, from_le_bytes(msg.payload, 1), 1) ELSE 0
    IN  CASE c = 0 /\ iface = "wl_display" /\ msg.opcode = 1 /\ Len(msg.payload) >= 4 -> 1
          [] c = 1 /\ iface = "wl_registry" /\ msg.opcode = 0 /\ Len(msg.payload) >= 8
                 /\ found # 0 /\ gl[found].interface = "xdg_wm_base" -> 2
          [] c = 2 /\ iface = "xdg_wm_base" /\ msg.opcode = 2 /\ Len(msg.payload) >= 8 -> 3
          [] OTHER -> c

---------------------------------------------------------------------------
(* Inputs                                                                  *)

Fill(n, b) == [i \in 1..n |-> b]

\* payloads of the records the model encodes: empty, 1 and 2 octets (not a
\* multiple of 4), 4 octets, and the two longest the data model allows
SmallPayloads == { << >>, << 170 >>, << 170, 187 >>, << 18, 52, 86, 120 >> }

LargePayloads == { Fill(65527, 0), Fill(65527, 255), Fill(65528, 0), Fill(65528, 255) }

ObjectIds == { 1, 2, 2147483647 }

Opcodes == { 0, 5, 65535 }

CodecInputs ==
    { Message_new(o, c, p) : o \in ObjectIds, c \in Opcodes,
                             p \in SmallPayloads \cup LargePayloads }

RECURSIVE SeqsUpTo(_, _)
SeqsUpTo(S, n) ==
    IF n = 0 THEN { << >> }
    ELSE LET shorter == SeqsUpTo(S, n - 1)
         IN  shorter \cup { Append(s, x) : s \in { t \in shorter : Len(t) = n - 1 }, x \in S }

\* WireEncoder::encode_batch: the encodings in order, nothing between them
RECURSIVE encode_batch(_)
encode_batch(messages) ==
    IF messages = << >> THEN << >>
    ELSE Message_encode(Head(messages)) \o encode_batch(Tail(messages))

\* records sent through the streaming decoder (the first two are the ones of
\* test_wire_decoder_streaming)
StreamRecords ==
    { Message_new(1, 1, << 170, 187 >>),
      Message_new(2, 2, << 204, 221, 238, 255 >>),
      Message_new(1, 0, << >>),
      Message_new(3, 9, << 9, 0, 0, 0, 0, 0, 9, 0 >>) }

\* records of the largest sizes the data model allows (total 65535 and 65536)
LargeRecords ==
    { Message_new(1, 0, Fill(65527, 0)), Message_new(1, 0, Fill(65528, 0)) }

\* octets of raw, unframed input: as a size field's low octet 0 is invalid and
\* 9 is a record with one payload octet; as its high octet 9 is a 2304-octet
\* record
RawOctets == { 0, 9 }

RawPrefixes == SeqsUpTo(RawOctets, MaxRaw) \ { << >> }

\* object ids the client puts into its requests as new ids
IdSet == { 1, 2, 3 }

\* object ids the client addresses its requests to: those, and one that is
\* never bound
Targets == IdSet \cup { 4 }

\* global names the client asks wl_registry.bind for: wl_compositor, wl_shm,
\* wl_output, xdg_wm_base, and two that name no global
BindNames == { 0, 1, 3, 4, 7, 10 }

\* the interface string a client sends along with a bind of that name
BindString(name) ==
    CASE name = 1 -> "wl_compositor"
      [] name = 3 -> "wl_shm"
      [] name = 7 -> "xdg_wm_base"
      [] OTHER -> "wl_output"

\* wl_registry.bind(name, interface, version, new_id) as a client packs it
BindPayload(name, new_id) ==
    push_string(to_le_bytes(name), BindString(name)) \o to_le_bytes(1) \o to_le_bytes(new_id)

OneWord == { to_le_bytes(i) : i \in IdSet }

TwoWords == { to_le_bytes(a) \o to_le_bytes(b) : a \in IdSet, b \in IdSet }

BindPayloads == { BindPayload(n, x) : n \in BindNames, x \in IdSet }

\* payloads too short for the handler of their opcode
ShortPayloads == { << >>, << 2, 0, 0 >> }

\* a payload one octet short of two words
SevenOctets == { << 2, 0, 0, 0, 3, 0, 0 >> }

\* the payloads sent with each opcode: opcode 0 is sync, bind, create_surface
\* and create_pool; 1 is get_registry and get_toplevel; 2 is get_xdg_surface;
\* 4 is ack_configure; 6 is commit; 3 is handled by no interface
PayloadsFor(opcode) ==
    CASE opcode = 0 -> OneWord \cup TwoWords \cup BindPayloads \cup ShortPayloads
                           \cup SevenOctets
      [] opcode = 1 -> OneWord \cup ShortPayloads
      [] opcode = 2 -> TwoWords \cup { to_le_bytes(2) } \cup ShortPayloads
                           \cup SevenOctets
      [] opcode = 4 -> { to_le_bytes(1) }
      [] OTHER -> { << >> }

RequestOpcodes == { 0, 1, 2, 3, 4, 6 }

Requests ==
    UNION { { Message_new(o, c, p) : o \in Targets, p \in PayloadsFor(c) } :
            c \in RequestOpcodes }

---------------------------------------------------------------------------
(* handle_client                                                           *)

Conns == 1..MaxConns

\* write_all that puts the new octets ahead of those already written
Mut_write_all(out, data) == data \o out

\* stream.write_all(&response_data), completed: the octets follow what the
\* task wrote before
write_all(out, data) == out \o data

\* a task that has returned from handle_client (or unwound from it)
Terminated(c) == task[c] \in { "closed", "read_failed", "write_failed", "panicked" }

\* what a client sends: a well-formed request, or a header whose size field
\* is 4, below HEADER_SIZE
Valid(msg) == [corrupt |-> FALSE, msg |-> msg]

Broken(msg) == [corrupt |-> TRUE, msg |-> msg]

ItemWire(item) ==
    IF item.corrupt
    THEN to_le_bytes(item.msg.object_id) \o half_le(item.msg.opcode) \o half_le(4)
    ELSE Message_encode(item.msg)

RECURSIVE ScriptWire(_)
ScriptWire(items) ==
    IF items = << >> THEN << >>
    ELSE ItemWire(Head(items)) \o ScriptWire(Tail(items))

\* wl_display.sync with callback 2
SyncRequest == Valid(Message_new(1, 0, to_le_bytes(2)))

\* wl_display.get_registry with registry 3
RegistryRequest == Valid(Message_new(1, 1, to_le_bytes(3)))

\* a request to object 4, which is never bound
StrayRequest == Valid(Message_new(4, 0, to_le_bytes(3)))

\* a request addressed to object id 0, and a sync whose callback id is 0
ZeroTarget == Valid(Message_new(0, 0, << >>))

ZeroSync == Valid(Message_new(1, 0, to_le_bytes(0)))

\* a header with an invalid size field
BrokenHeader == Broken(Message_new(1, 0, << >>))

\* what one client sends: nothing; one request; two answered requests, the
\* first with nine replies; an unanswered request and an answered one; a
\* corrupt header before and after a request
Scripts ==
    { << >>,
      << SyncRequest >>,
      << RegistryRequest, SyncRequest >>,
      << StrayRequest, SyncRequest >>,
      << BrokenHeader, SyncRequest >>,
      << SyncRequest, BrokenHeader >>,
      << ZeroTarget, ZeroSync >> }

\* octets one read returns: a header's worth, one small request's worth, or
\* as many as the 65536-octet read buffer holds
ReadSizes == { 8, 12, 65536 }

\* octets a failing write_all has written before it fails
WriteCuts == { 0, 5 }

---------------------------------------------------------------------------
(* RenderFrame and FrameDecoder                                            *)

\* render::FRAME_MAGIC = b"WPRD"
FRAME_MAGIC == << 87, 80, 82, 68 >>

\* render::HEADER_SIZE
FRAME_HEADER_SIZE == 20

\* self.format as u32: the discriminant of PixelFormat
PixelFormat_as_u32(format) == IF format = "ARGB8888" THEN 0 ELSE 1

\* an unknown format value read as XRGB8888
Mut_PixelFormat_from(format_val) ==
    CASE format_val = 0 -> "ARGB8888"
      [] format_val = 1 -> "XRGB8888"
      [] OTHER -> "XRGB8888"

\* the match on format_val in RenderFrame::decode
PixelFormat_from(format_val) ==
    CASE format_val = 0 -> "ARGB8888"
      [] format_val = 1 -> "XRGB8888"
      [] OTHER -> "ARGB8888"

\* RenderFrame::new
RenderFrame_new(width, height, format, data) ==
    [width |-> width, height |-> height, format |-> format, data |-> data]

\* encode writing the data length ahead of the format
Mut_RenderFrame_encode(frame) ==
    FRAME_MAGIC
        \o to_le_bytes(frame.width)
        \o to_le_bytes(frame.height)
        \o to_le_bytes(Len(frame.data))
        \o to_le_bytes(PixelFormat_as_u32(frame.format))
        \o frame.data

\* RenderFrame::encode (data.len() as u32 keeps the length as it is: the
\* sequences of the model are far shorter than 2^32)
RenderFrame_encode(frame) ==
    FRAME_MAGIC
        \o to_le_bytes(frame.width)
        \o to_le_bytes(frame.height)
        \o to_le_bytes(PixelFormat_as_u32(frame.format))
        \o to_le_bytes(Len(frame.data))
        \o frame.data

\* RenderFrame::decode
RenderFrame_decode(data) ==
    IF Len(data) < FRAME_HEADER_SIZE THEN Err("Frame too short")
    ELSE IF SubSeq(data, 1, 4) # FRAME_MAGIC THEN Err("Invalid frame magic")
    ELSE
      LET width == from_le_bytes(data, 5)
          height == from_le_bytes(data, 9)
          format_val == from_le_bytes(data, 13)
          data_size == from_le_bytes(data, 17)
          format == PixelFormat_from(format_val)
      IN  IF Len(data) < FRAME_HEADER_SIZE + data_size
          THEN Err("Incomplete frame data")
          ELSE Ok(RenderFrame_new(width, height, format,
                      SubSeq(data, FRAME_HEADER_SIZE + 1, FRAME_HEADER_SIZE + data_size)))

\* FrameDecoder::push
FrameDecoder_push(buf, data) == buf \o data

\* self.buffer.windows(4).position(|w| w == FRAME_MAGIC), searched from pos on:
\* the 0-based position of the first window that is the magic, -1 for None
RECURSIVE position(_, _)
position(buf, pos) ==
    IF pos + 4 > Len(buf) THEN -1
    ELSE IF SubSeq(buf, pos + 1, pos + 4) = FRAME_MAGIC THEN pos
    ELSE position(buf, pos + 1)

\* find_magic reporting the position after the one where the magic starts
Mut_find_magic(buf) ==
    LET pos == position(buf, 0) IN IF pos >= 0 THEN pos + 1 ELSE -1

\* FrameDecoder::find_magic
find_magic(buf) == position(buf, 0)

\* a frame that is exactly complete taken as incomplete
Mut_FrameNeedMore(buf, total_size) == Len(buf) <= total_size

\* the completeness test of FrameDecoder::decode
FrameNeedMore(buf, total_size) == Len(buf) < total_size

\* FrameDecoder::decode: the buffer afterwards and the value returned
FrameDecoder_decode(buf) ==
    IF Len(buf) < FRAME_HEADER_SIZE
    THEN [buffer |-> buf, ret |-> None]
    ELSE IF SubSeq(buf, 1, 4) # FRAME_MAGIC
    THEN LET pos == find_magic(buf)
         IN  [buffer |-> IF pos >= 0 THEN SubSeq(buf, pos + 1, Len(buf)) ELSE << >>,
              ret |-> None]
    ELSE
      LET data_size == from_le_bytes(buf, 17)
          total_size == FRAME_HEADER_SIZE + data_size
      IN  IF FrameNeedMore(buf, total_size)
          THEN [buffer |-> buf, ret |-> None]
          ELSE LET r == RenderFrame_decode(SubSeq(buf, 1, total_size))
               IN  IF r.ok
                   THEN [buffer |-> SubSeq(buf, total_size + 1, Len(buf)),
                         ret |-> Some(r.msg)]
                   ELSE [buffer |-> SubSeq(buf, 5, Len(buf)), ret |-> None]

RECURSIVE encode_frames(_)
encode_frames(frames) ==
    IF frames = << >> THEN << >>
    ELSE RenderFrame_encode(Head(frames)) \o encode_frames(Tail(frames))

\* frames handed to RenderFrame::encode: both formats, widths and heights up
\* to the largest the data model holds, data that is empty, one octet, the
\* magic itself, and the 400 octets of test_frame_decoder_streaming
FrameData == { << >>, << 255 >>, FRAME_MAGIC, Fill(400, 0) }

FrameInputs ==
    { RenderFrame_new(w, h, f, d) :
        w \in { 0, 10, 2147483647 }, h \in { 1, 100 },
        f \in { "ARGB8888", "XRGB8888" }, d \in FrameData }

\* octets handed to RenderFrame::decode that no encode produced: a header with
\* any format value, followed by as many data octets as it announces or by
\* one fewer, and a header of the wrong magic
RawFrames ==
    { FRAME_MAGIC \o to_le_bytes(10) \o to_le_bytes(7) \o to_le_bytes(v)
        \o to_le_bytes(n) \o Fill(k, 170) :
        v \in { 0, 1, 2, 255, 65536, 2147483647 }, n \in { 0, 2 }, k \in { 1, 2 } }
    \cup { << 87, 80, 82, 69 >> \o Fill(16, 0), FRAME_MAGIC \o Fill(15, 0) }

\* frames sent through the streaming decoder
StreamFrames ==
    { RenderFrame_new(10, 2, f, d) :
        f \in { "ARGB8888", "XRGB8888" }, d \in { << >>, << 255 >>, FRAME_MAGIC } }

\* the frame of test_frame_decoder_streaming
TestFrame == RenderFrame_new(10, 10, "XRGB8888", Fill(400, 0))

\* garbage sent ahead of a frame: the four octets of a lost boundary, parts of
\* the magic, runs shorter and longer than a header, the magic itself, a
\* whole header that announces no data, and one that announces 100 octets
Garbage ==
    { << 222, 173, 190, 239 >>, << 87 >>, << 87, 80, 82 >>, Fill(19, 0), Fill(25, 7),
      FRAME_MAGIC, FRAME_MAGIC \o Fill(16, 0),
      FRAME_MAGIC \o Fill(12, 0) \o to_le_bytes(100) }

---------------------------------------------------------------------------
(* RenderClient                                                            *)

\* Ok(())
Unit == [ok |-> TRUE]

\* RenderClient::new: stream: None
RenderClient_new == 0

\* a connect that drops the stream it held when the new connection fails
Mut_RenderClient_connect(stream, accepted) ==
    IF accepted = 0
    THEN [stream |-> 0, result |-> Err("io")]
    ELSE [stream |-> accepted, result |-> Unit]

\* RenderClient::connect: accepted is the connection TcpStream::connect
\* returned, 0 when it failed
RenderClient_connect(stream, accepted) ==
    IF accepted = 0
    THEN [stream |-> stream, result |-> Err("io")]
    ELSE [stream |-> accepted, result |-> Unit]

\* a send_frame that writes its frame whether or not a stream is there
Mut_RenderClient_send_frame(stream, frame, fails, cut) ==
    LET data == RenderFrame_encode(frame)
    IN  IF fails
        THEN [written |-> SubSeq(data, 1, cut), result |-> Err("io")]
        ELSE [written |-> data, result |-> Unit]

\* RenderClient::send_frame: what is written to the stream and what is
\* returned; a write_all that fails has written the first cut octets
RenderClient_send_frame(stream, frame, fails, cut) ==
    IF stream = 0
    THEN [written |-> << >>, result |-> Err("Not connected")]
    ELSE LET data == RenderFrame_encode(frame)
         IN  IF fails
             THEN [written |-> SubSeq(data, 1, cut), result |-> Err("io")]
             ELSE [written |-> data, result |-> Unit]

\* RenderClient::is_connected
is_connected(stream) == stream # 0

\* RenderClient::disconnect
disconnect(stream) == 0

---------------------------------------------------------------------------
(* MirrorBuffer (buffer.rs)                                                *)

\* usize / u32 min
min(a, b) == IF a <= b THEN a ELSE b

\* MirrorBuffer::new: stride * height octets of zero
MirrorBuffer_new(id, width, height, bpp, stride) ==
    [id |-> id, width |-> width, height |-> height, bpp |-> bpp,
     stride |-> stride, data |-> Fill(stride * height, 0), prev_data |-> None,
     dirty_regions |-> << >>]

\* MirrorBuffer::from_data: the data is taken as it is, whatever its length
MirrorBuffer_from_data(id, width, height, bpp, stride, data) ==
    [id |-> id, width |-> width, height |-> height, bpp |-> bpp,
     stride |-> stride, data |-> data, prev_data |-> None,
     dirty_regions |-> << >>]

\* MirrorBuffer::update
MirrorBuffer_update(b, data) ==
    LET copy_len == min(Len(data), Len(b.data))
    IN  [b EXCEPT !.prev_data = Some(b.data),
                  !.data = SubSeq(data, 1, copy_len)
                               \o SubSeq(b.data, copy_len + 1, Len(b.data))]

\* one turn of the loop of update_region: the buffer's data afterwards, or a
\* panic. A usize subtraction below zero panics when overflow checks are on
\* (checked) and wraps to a value above every length when they are off; a
\* slice past the end panics in both builds.
update_row(b, x, y, width, data, row, checked) ==
    LET dst_y      == y + row
        src_stride == width * b.bpp
        src_offset == row * src_stride
        dst_offset == (dst_y * b.stride) + (x * b.bpp)
        dst_room   == Len(b.data) - dst_offset
        src_room   == Len(data) - src_offset
        len0       == width * b.bpp
        len1       == IF dst_room < 0 THEN len0 ELSE min(len0, dst_room)
        copy_len   == IF src_room < 0 THEN len1 ELSE min(len1, src_room)
    IN  IF checked /\ (dst_room < 0 \/ src_room < 0)
        THEN [data |-> b.data, panic |-> TRUE]
        ELSE IF copy_len > 0
        THEN IF dst_offset + copy_len > Len(b.data)
                  \/ src_offset + copy_len > Len(data)
             THEN [data |-> b.data, panic |-> TRUE]
             ELSE [data |-> SubSeq(b.data, 1, dst_offset)
                               \o SubSeq(data, src_offset + 1, src_offset + copy_len)
                               \o SubSeq(b.data, dst_offset + copy_len + 1, Len(b.data)),
                   panic |-> FALSE]
        ELSE [data |-> b.data, panic |-> FALSE]

RECURSIVE update_rows(_, _, _, _, _, _, _, _)
update_rows(b, x, y, width, height, data, row, checked) ==
    IF row >= height \/ y + row >= b.height
    THEN [buf |-> b, panic |-> FALSE]
    ELSE LET r == update_row(b, x, y, width, data, row, checked)
         IN  IF r.panic
             THEN [buf |-> b, panic |-> TRUE]
             ELSE update_rows([b EXCEPT !.data = r.data], x, y, width, height,
                              data, row + 1, checked)

\* DirtyRegion { x, y, width, height }
DirtyRegion(x, y, width, height) ==
    [x |-> x, y |-> y, width |-> width, height |-> height]

\* MirrorBuffer::update_region
update_region(b, x, y, width, height, data, checked) ==
    LET r == update_rows(b, x, y, width, height, data, 0, checked)
    IN  IF r.panic
        THEN r
        ELSE [buf |-> [r.buf EXCEPT !.dirty_regions =
                          Append(@, DirtyRegion(x, y, width, height))],
              panic |-> FALSE]

\* extract_region copying each row from where it would start without padding
RECURSIVE Mut_extract_region(_, _, _, _, _)
Mut_extract_region(b, x, y, width, height) ==
    IF height = 0 \/ y >= b.height
    THEN << >>
    ELSE LET src_offset == (y * b.width * b.bpp) + (x * b.bpp)
             copy_len   == width * b.bpp
         IN  (IF src_offset + copy_len <= Len(b.data)
              THEN SubSeq(b.data, src_offset + 1, src_offset + copy_len)
              ELSE << >>)
                 \o Mut_extract_region(b, x, y + 1, width, height - 1)

\* MirrorBuffer::extract_region: the rows y .. y + height - 1, a row that does
\* not lie within the data left out
RECURSIVE extract_region(_, _, _, _, _)
extract_region(b, x, y, width, height) ==
    IF height = 0 \/ y >= b.height
    THEN << >>
    ELSE LET src_offset == (y * b.stride) + (x * b.bpp)
             copy_len   == width * b.bpp
         IN  (IF src_offset + copy_len <= Len(b.data)
              THEN SubSeq(b.data, src_offset + 1, src_offset + copy_len)
              ELSE << >>)
                 \o extract_region(b, x, y + 1, width, height - 1)

\* DeltaRegion { x: 0, y: region_start_y, width: self.width, height, data }
DeltaRegion(b, region_start_y, region_height) ==
    [x |-> 0, y |-> region_start_y, width |-> b.width, height |-> region_height,
     data |-> extract_region(b, 0, region_start_y, b.width, region_height)]

\* the loop of calculate_delta from row y on, and the region at the end of
\* the buffer; the comparison of a row that starts past the end of the data
\* is a slice whose start is above its end, which panics
RECURSIVE delta_rows(_, _, _, _, _, _)
delta_rows(b, prev, y, in_dirty_region, region_start_y, regions) ==
    IF y >= b.height
    THEN [regions |-> IF in_dirty_region
                      THEN Append(regions,
                                  DeltaRegion(b, region_start_y,
                                              b.height - region_start_y))
                      ELSE regions,
          panic |-> FALSE]
    ELSE
      LET row_start == y * b.stride
          row_end   == min(min(row_start + (b.width * b.bpp), Len(b.data)),
                           Len(prev))
      IN  IF row_start > row_end
          THEN [regions |-> regions, panic |-> TRUE]
          ELSE
            LET row_changed == SubSeq(b.data, row_start + 1, row_end)
                                   # SubSeq(prev, row_start + 1, row_end)
            IN  IF row_changed /\ ~in_dirty_region
                THEN delta_rows(b, prev, y + 1, TRUE, y, regions)
                ELSE IF ~row_changed /\ in_dirty_region
                THEN delta_rows(b, prev, y + 1, FALSE, region_start_y,
                                Append(regions,
                                       DeltaRegion(b, region_start_y,
                                                   y - region_start_y)))
                ELSE delta_rows(b, prev, y + 1, in_dirty_region, region_start_y,
                                regions)

RECURSIVE total_bytes_of(_)
total_bytes_of(regions) ==
    IF regions = << >> THEN 0
    ELSE Len(Head(regions).data) + total_bytes_of(Tail(regions))

\* MirrorBuffer::calculate_delta: the Option<BufferDelta> returned, or a panic
calculate_delta(b) ==
    IF ~b.prev_data.some
    THEN [ret |-> None, panic |-> FALSE]
    ELSE IF Len(b.prev_data.msg) # Len(b.data)
    THEN [ret |-> None, panic |-> FALSE]
    ELSE LET r == delta_rows(b, b.prev_data.msg, 0, FALSE, 0, << >>)
         IN  IF r.panic
             THEN [ret |-> None, panic |-> TRUE]
             ELSE IF r.regions = << >>
             THEN [ret |-> None, panic |-> FALSE]
             ELSE [ret |-> Some([buffer_id |-> b.id, regions |-> r.regions,
                                 total_bytes |-> total_bytes_of(r.regions)]),
                   panic |-> FALSE]

RECURSIVE apply_regions(_, _, _)
apply_regions(b, regions, checked) ==
    IF regions = << >>
    THEN [buf |-> b, panic |-> FALSE]
    ELSE LET region == Head(regions)
             r == update_region(b, region.x, region.y, region.width,
                                region.height, region.data, checked)
         IN  IF r.panic THEN r
             ELSE apply_regions(r.buf, Tail(regions), checked)

\* MirrorBuffer::apply_delta
apply_delta(b, buffer_delta, checked) ==
    LET r == apply_regions(b, buffer_delta.regions, checked)
    IN  IF r.panic THEN r
        ELSE [buf |-> [r.buf EXCEPT !.dirty_regions = << >>], panic |-> FALSE]

\* MirrorBuffer::clear_dirty
clear_dirty(b) == [b EXCEPT !.dirty_regions = << >>]

\* the buffer of the sender and the buffer of the other side
Sides == { "mirror", "replica" }

\* the calls of update_region made by themselves: x, y, width, height, data.
\* One pixel of 255 into row 1, one pixel of 0 into row 0, and two rows with
\* no data at all
RegionCalls ==
    { << 0, 1, 1, 1, << 255 >> >>, << 0, 0, 1, 1, << 0 >> >>,
      << 0, 0, 1, 2, << >> >> }

\* the shapes of the buffers of the model: width, height, bpp, stride. Rows
\* without padding, rows with one octet of padding, and two-pixel rows
MirrorShapes ==
    { << 1, 4, 1, 1 >>, << 1, 3, 2, 3 >>, << 2, 2, 2, 4 >> }

\* the buffers handed to from_data with fewer octets than stride * height
ShortShapes == { << 1, 2, 1, 2 >>, << 2, 1, 1, 2 >> }

\* the buffers the model starts from: new() of every shape, from_data() with
\* stride * height octets, and from_data() with one octet
InitialBuffers ==
    { MirrorBuffer_new(1, s[1], s[2], s[3], s[4]) : s \in MirrorShapes }
    \cup { MirrorBuffer_from_data(1, 1, 4, 1, 1, Fill(4, 255)) }
    \cup { MirrorBuffer_from_data(1, s[1], s[2], s[3], s[4], << 0 >>) :
             s \in ShortShapes }

\* what one row of an update holds: zeros, 255s, or zeros with 255 in the
\* padding only
RowValues(b) ==
    { Fill(b.stride, 0), Fill(b.stride, 255),
      Fill(b.width * b.bpp, 0) \o Fill(b.stride - (b.width * b.bpp), 255) }

RECURSIVE RowsData(_, _)
RowsData(rows, h) ==
    IF h = 0 THEN { << >> }
    ELSE { r \o d : r \in rows, d \in RowsData(rows, h - 1) }

\* the data handed to update(): every combination of rows, one octet, no
\* octet, and one octet more than the buffer holds
UpdateData(b) ==
    RowsData(RowValues(b), b.height)
        \cup { << >>, << 255 >>, Fill(Len(b.data) + 1, 255) }

---------------------------------------------------------------------------
(* The event channel of Server::run and Connection::run (connection.rs)    *)

\* ConnectionEvent
Connected(id) == [type |-> "Connected", id |-> id]

Disconnected(id) == [type |-> "Disconnected", id |-> id]

MessageEvent(id, msg) == [type |-> "Message", id |-> id, msg |-> msg]

RawData(id, data) == [type |-> "RawData", id |-> id, data |-> data]

\* a channel that hands over the newest event first
Mut_tx_send(queue, closed, event) ==
    IF closed
    THEN [events |-> queue, ok |-> FALSE]
    ELSE [events |-> << event >> \o queue, ok |-> TRUE]

\* mpsc::Sender::send: the event is queued behind those already sent, or the
\* send fails because the receiver is gone
tx_send(queue, closed, event) ==
    IF closed
    THEN [events |-> queue, ok |-> FALSE]
    ELSE [events |-> Append(queue, event), ok |-> TRUE]

\* the slots of the channel that hold no event: its capacity less the events
\* sent and not yet taken out
FreeSlots(cap, queue, n_taken) == cap - (Len(queue) - n_taken)

\* the task has a send waiting for room
Waiting(queue, task_id) == \E i \in 1..Len(queue) : queue[i].task = task_id

\* the data Connection::run hands to the decoder for the octets of one read:
\* what decompress returned (lz4: the Result of decompress_size_prepended on
\* these octets), and the octets themselves when it failed or when the
\* configuration has no compression
received_data(level, read, lz4) ==
    IF level # "None"
    THEN IF lz4.ok THEN lz4.msg ELSE read
    ELSE read

\* the events of client id among those sent
RECURSIVE events_of(_, _)
events_of(queue, id) ==
    IF queue = << >> THEN << >>
    ELSE IF Head(queue).id = id
    THEN << Head(queue) >> \o events_of(Tail(queue), id)
    ELSE events_of(Tail(queue), id)

---------------------------------------------------------------------------
(* The read loop of handle_client on a long stream (main.rs, wire.rs)      *)

\* a read buffer of twice the size
Mut_READ_BUFFER_SIZE == 2 * 65536

\* let mut buffer = vec![0u8; 65536];
READ_BUFFER_SIZE == 65536

\* A long stream is given by its items: an item is len octets, a header for
\* object 4, opcode 0, with the size field size, followed by zeros. For a
\* record len = size; an item whose len differs is not a record.
item_octet(item, k) ==
    CASE k = 0 -> 4
      [] k = 6 -> item.size % 256
      [] k = 7 -> item.size \div 256
      [] OTHER -> 0

\* the octet at offset i, counted from 0, of the stream
RECURSIVE octet(_, _)
octet(items, i) ==
    IF i < Head(items).len
    THEN item_octet(Head(items), i)
    ELSE octet(Tail(items), i - Head(items).len)

RECURSIVE stream_len(_)
stream_len(items) ==
    IF items = << >> THEN 0 ELSE Head(items).len + stream_len(Tail(items))

\* WireDecoder::decode on a buffer that holds the octets lo .. hi - 1 of the
\* stream: push appends at hi, split_to moves lo past the record, clear
\* moves lo to hi. A record split off is size octets with a size field of
\* size, in 8 ..= 65535, which Message::decode accepts.
window_decode(items, lo, hi) ==
    IF hi - lo < HEADER_SIZE
    THEN [lo |-> lo, ret |-> None]
    ELSE
      LET size == octet(items, lo + 6) + (256 * octet(items, lo + 7))
      IN  IF SizeInvalid(size)
          THEN [lo |-> hi, ret |-> None]
          ELSE IF hi - lo < size
          THEN [lo |-> lo, ret |-> None]
          ELSE [lo |-> lo + size,
                ret |-> Some([header |-> [k \in 1..HEADER_SIZE |->
                                             octet(items, lo + k - 1)],
                              size |-> size])]

---------------------------------------------------------------------------
(* The library parts at rest                                               *)

Clients == 1..MaxClients

LoopIdle ==
    /\ lp_items = << >>
    /\ lp_lo = 0
    /\ lp_hi = 0
    /\ lp_pc = "off"
    /\ lp_result = None
    /\ lp_reads = 0

\* Server::bind: next_client_id: 1; no client has connected
ChannelNew ==
    /\ next_client_id = 1
    /\ acceptor = 0
    /\ accept_errors = 0
    /\ capacity = 1
    /\ events = << >>
    /\ taken = 0
    /\ waiters = << >>
    /\ rx_closed = FALSE
    /\ conn_script = [c \in Clients |-> << >>]
    /\ conn_stream = [c \in Clients |-> << >>]
    /\ conn_decoder = [c \in Clients |-> << >>]
    /\ conn_data = [c \in Clients |-> << >>]
    /\ conn_pc = [c \in Clients |-> "none"]
    /\ conn_inflated = [c \in Clients |-> FALSE]

MirrorIdle ==
    /\ mirror = MirrorBuffer_new(1, 0, 0, 4, 0)
    /\ replica = MirrorBuffer_new(1, 0, 0, 4, 0)
    /\ delta = None
    /\ delta_src = mirror
    /\ mb_panic = FALSE
    /\ mb_op = "off"
    /\ mb_updates = 0
    /\ mb_regions = 0

LibIdle == LoopIdle /\ compression = "None" /\ ChannelNew /\ MirrorIdle

---------------------------------------------------------------------------
(* Initial states                                                          *)

\* no connection has been accepted and no client sends anything
ServerIdle ==
    /\ script = [c \in Conns |-> << >>]
    /\ inbound = [c \in Conns |-> << >>]
    /\ peer_closed = [c \in Conns |-> FALSE]
    /\ task = [c \in Conns |-> "listening"]
    /\ decoder = [c \in Conns |-> << >>]
    /\ compositor = [c \in Conns |-> Compositor_new]
    /\ outbound = [c \in Conns |-> << >>]
    /\ handled = [c \in Conns |-> << >>]
    /\ corrupt = [c \in Conns |-> FALSE]
    /\ response_data = [c \in Conns |-> << >>]
    /\ written = [c \in Conns |-> 0]

FrameIdle ==
    /\ f_in = RenderFrame_new(0, 0, "ARGB8888", << >>)
    /\ f_wire = << >>
    /\ f_out = Err("not run")
    /\ f_pc = "off"

\* FrameDecoder::new, and the stream it is going to be fed
FrameDecoderNew(g, F) ==
    /\ fd_garbage = g
    /\ fd_frames = F
    /\ fd_pending = g \o encode_frames(F)
    /\ fd_buffer = << >>
    /\ fd_received = << >>
    /\ fd_result = None
    /\ fd_op = "new"

\* RenderClient::new
ClientNew ==
    /\ rc_stream = RenderClient_new
    /\ rc_peers = << >>
    /\ rc_frame = RenderFrame_new(0, 0, "ARGB8888", << >>)
    /\ rc_result = Err("not run")
    /\ rc_op = "new"
    /\ rc_ops = 0

RenderIdle == FrameIdle /\ FrameDecoderNew(<< >>, << >>) /\ ClientNew

CodecIdle ==
    /\ m_in = Message_new(1, 0, << >>)
    /\ m_wire = << >>
    /\ m_out = Err("not run")
    /\ m_pc = "off"

DecoderNew(pre, M) ==
    /\ prefix = pre
    /\ sent = M
    /\ pending = pre \o encode_batch(M)
    /\ buffer = << >>
    /\ received = << >>
    /\ result = None
    /\ size_seen = -1
    /\ panicked = FALSE
    /\ cleared = 0
    /\ op = "new"
    /\ pushes = 0
    /\ clears = 0

\* let mut compositor = Compositor::new();
CompositorNew ==
    /\ globals = Compositor_new.globals
    /\ objects = Compositor_new.objects
    /\ allocator = Compositor_new.allocator
    /\ next_global_name = Compositor_new.next_global_name
    /\ request = None
    /\ interface = ""
    /\ responses = << >>
    /\ chain = 0

CodecInit ==
    /\ m_in \in CodecInputs
    /\ m_wire = << >>
    /\ m_out = Err("not run")
    /\ m_pc = "new"
    /\ DecoderNew(<< >>, << >>)
    /\ CompositorNew
    /\ LibIdle
    /\ ServerIdle
    /\ RenderIdle

DecoderInit ==
    /\ CodecIdle
    /\ CompositorNew
    /\ LibIdle
    /\ ServerIdle
    /\ RenderIdle
    /\ \/ \E M \in SeqsUpTo(StreamRecords, MaxMsgs) : DecoderNew(<< >>, M)
       \/ \E pre \in RawPrefixes, M \in SeqsUpTo(StreamRecords, 1) : DecoderNew(pre, M)
       \/ \E r \in LargeRecords : DecoderNew(<< >>, << r >>)

---------------------------------------------------------------------------
(* Actions                                                                 *)

\* handle_message taking a server-side id from the allocator for every request
\* it answers
Mut_HandleMessage(msg) ==
    /\ request = None
    /\ LET h == handle_message(globals, objects, msg)
       IN  /\ DOMAIN h.objects \subseteq IdSet
           /\ objects' = h.objects
           /\ responses' = h.responses
           /\ allocator' = IF h.responses # << >> THEN 3 ELSE allocator
    /\ interface' = lookup(objects, msg.object_id)
    /\ request' = Some(msg)
    /\ chain' = advance(chain, globals, lookup(objects, msg.object_id), msg)
    /\ UNCHANGED << libVars, globals, next_global_name, codecVars, decoderVars, serverVars,
                    renderVars >>

\* let responses = compositor.handle_message(&msg);
HandleMessage(msg) ==
    /\ request = None
    /\ LET h == handle_message(globals, objects, msg)
       IN  /\ DOMAIN h.objects \subseteq IdSet    \* the client's new ids are in IdSet
           /\ objects' = h.objects
           /\ responses' = h.responses
    /\ interface' = lookup(objects, msg.object_id)
    /\ request' = Some(msg)
    /\ chain' = advance(chain, globals, lookup(objects, msg.object_id), msg)
    /\ UNCHANGED << libVars, globals, allocator, next_global_name, codecVars, decoderVars,
                    serverVars, renderVars >>

\* the responses are written and the loop body ends: msg and responses go out
\* of scope
EndRequest ==
    /\ request # None
    /\ request' = None
    /\ interface' = ""
    /\ responses' = << >>
    /\ UNCHANGED << libVars, engineVars, chain, codecVars, decoderVars, serverVars,
                    renderVars >>

\* let encoded = msg.encode();
Encode ==
    /\ m_pc = "new"
    /\ m_wire' = Message_encode(m_in)
    /\ m_pc' = "encoded"
    /\ UNCHANGED << libVars, m_in, m_out, decoderVars, compVars, serverVars, renderVars >>

\* let decoded = Message::decode(&encoded);
Decode ==
    /\ m_pc = "encoded"
    /\ m_out' = Message_decode(m_wire)
    /\ m_pc' = "decoded"
    /\ UNCHANGED << libVars, m_in, m_wire, decoderVars, compVars, serverVars, renderVars >>

\* decoder.push(chunk): the next n octets of the stream
Push(n) ==
    /\ ~panicked
    /\ n >= 1
    /\ n <= Len(pending)
    /\ pushes + 1 < MaxPushes \/ n = Len(pending)
    /\ buffer' = WireDecoder_push(buffer, SubSeq(pending, 1, n))
    /\ pending' = SubSeq(pending, n + 1, Len(pending))
    /\ op' = "push"
    /\ pushes' = pushes + 1
    /\ UNCHANGED << libVars, prefix, sent, received, result, size_seen, panicked, cleared,
                    clears, codecVars, compVars, serverVars, renderVars >>

\* decoder.decode()
Pop ==
    /\ ~panicked
    /\ LET d == WireDecoder_decode(buffer)
       IN  /\ buffer' = d.buffer
           /\ result' = d.ret
           /\ size_seen' = d.size
           /\ panicked' = d.panic
           /\ cleared' = IF d.discarded THEN cleared + 1 ELSE cleared
           /\ received' = IF d.ret.some THEN Append(received, d.ret.msg) ELSE received
    /\ op' = "decode"
    /\ UNCHANGED << libVars, prefix, sent, pending, pushes, clears, codecVars, compVars,
                    serverVars, renderVars >>

\* decoder.clear(): the caller drops whatever is buffered
Clear ==
    /\ ~panicked
    /\ clears < MaxClears
    /\ buffer' = WireDecoder_clear(buffer)
    /\ op' = "clear"
    /\ clears' = clears + 1
    /\ UNCHANGED << libVars, prefix, sent, pending, received, result, size_seen, panicked,
                    cleared, pushes, codecVars, compVars, serverVars, renderVars >>

CodecNext == Encode \/ Decode

DecoderNext ==
    \/ \E n \in (1..MaxChunk) \cup { Len(pending) } : Push(n)
    \/ Pop
    \/ Clear

Init ==
    /\ CodecIdle
    /\ DecoderNew(<< >>, << >>)
    /\ CompositorNew
    /\ LibIdle
    /\ ServerIdle
    /\ RenderIdle

Next ==
    \/ \E msg \in Requests : HandleMessage(msg)
    \/ EndRequest

Spec == Init /\ [][Next]_vars

SpecCodec == CodecInit /\ [][CodecNext]_vars

SpecDecoder == DecoderInit /\ [][DecoderNext]_vars

---------------------------------------------------------------------------
(* The server: run_server and the tasks running handle_client              *)

\* every client has its script in flight; no connection is accepted yet
ServerInit ==
    /\ CodecIdle
    /\ DecoderNew(<< >>, << >>)
    /\ CompositorNew
    /\ LibIdle
    /\ RenderIdle
    /\ script \in [Conns -> Scripts]
    /\ inbound = [c \in Conns |-> ScriptWire(script[c])]
    /\ peer_closed = [c \in Conns |-> FALSE]
    /\ task = [c \in Conns |-> "listening"]
    /\ decoder = [c \in Conns |-> << >>]
    /\ compositor = [c \in Conns |-> Compositor_new]
    /\ outbound = [c \in Conns |-> << >>]
    /\ handled = [c \in Conns |-> << >>]
    /\ corrupt = [c \in Conns |-> FALSE]
    /\ response_data = [c \in Conns |-> << >>]
    /\ written = [c \in Conns |-> 0]

\* an accept that builds one compositor and one decoder for all connections
Mut_Accept(c) ==
    /\ task[c] = "listening"
    /\ task' = [task EXCEPT ![c] = "read"]
    /\ compositor' = [d \in Conns |-> Compositor_new]
    /\ decoder' = [d \in Conns |-> << >>]
    /\ UNCHANGED << libVars, writeVars, script, inbound, peer_closed, outbound, handled, corrupt,
                    codecVars, decoderVars, compVars, renderVars >>

\* listener.accept() and tokio::spawn: the task starts handle_client with a
\* compositor and a decoder of its own and reaches its first read
Accept(c) ==
    /\ task[c] = "listening"
    /\ task' = [task EXCEPT ![c] = "read"]
    /\ compositor' = [compositor EXCEPT ![c] = Compositor_new]
    /\ decoder' = [decoder EXCEPT ![c] = << >>]
    /\ UNCHANGED << libVars, writeVars, script, inbound, peer_closed, outbound, handled, corrupt,
                    codecVars, decoderVars, compVars, renderVars >>

\* the client closes its end of the stream
PeerClose(c) ==
    /\ ~peer_closed[c]
    /\ peer_closed' = [peer_closed EXCEPT ![c] = TRUE]
    /\ UNCHANGED << libVars, writeVars, script, inbound, task, decoder, compositor, outbound, handled,
                    corrupt, codecVars, decoderVars, compVars, renderVars >>

\* let n = stream.read(&mut buffer).await?; with n > 0, and
\* decoder.push(&buffer[..n])
Read(c, size) ==
    /\ task[c] = "read"
    /\ inbound[c] # << >>
    /\ LET n == IF size < Len(inbound[c]) THEN size ELSE Len(inbound[c])
       IN  /\ decoder' = [decoder EXCEPT ![c] =
                              WireDecoder_push(@, SubSeq(inbound[c], 1, n))]
           /\ inbound' = [inbound EXCEPT ![c] = SubSeq(@, n + 1, Len(@))]
    /\ task' = [task EXCEPT ![c] = "decode"]
    /\ UNCHANGED << libVars, writeVars, script, peer_closed, compositor, outbound, handled, corrupt,
                    codecVars, decoderVars, compVars, renderVars >>

\* a read that returns zero although the client has not closed
Mut_ReadZero(c) ==
    /\ task[c] = "read"
    /\ inbound[c] = << >>
    /\ task' = [task EXCEPT ![c] = "closed"]
    /\ UNCHANGED << libVars, writeVars, script, inbound, peer_closed, decoder, compositor, outbound,
                    handled, corrupt, codecVars, decoderVars, compVars, renderVars >>

\* the read returns 0: the client has closed and everything it sent was read;
\* handle_client returns Ok(())
ReadZero(c) ==
    /\ task[c] = "read"
    /\ inbound[c] = << >>
    /\ peer_closed[c]
    /\ task' = [task EXCEPT ![c] = "closed"]
    /\ UNCHANGED << libVars, writeVars, script, inbound, peer_closed, decoder, compositor, outbound,
                    handled, corrupt, codecVars, decoderVars, compVars, renderVars >>

\* the read fails: the ? returns the error from handle_client
ReadError(c) ==
    /\ task[c] = "read"
    /\ task' = [task EXCEPT ![c] = "read_failed"]
    /\ UNCHANGED << libVars, writeVars, script, inbound, peer_closed, decoder, compositor, outbound,
                    handled, corrupt, codecVars, decoderVars, compVars, renderVars >>

\* the octet counts at which a poll of write_all may stop: after one of
\* WriteCuts octets, with the write still pending, or at the end
Polls(data) == { k \in WriteCuts \cup { Len(data) } : k <= Len(data) }

\* one turn of while let Some(msg) = decoder.decode(): the request is handled
\* and its responses, if any, are encoded and handed to write_all, whose first
\* poll writes k octets: all of them, or fewer, and then the task is
\* suspended in the write; on None the task goes back to read. (d and h are
\* bound by \E over a singleton so that each is computed once.)
Serve(c) ==
    /\ task[c] = "decode"
    /\ response_data[c] = << >>
    /\ \E d \in { WireDecoder_decode(decoder[c]) } :
           /\ decoder' = [decoder EXCEPT ![c] = d.buffer]
           /\ corrupt' = [corrupt EXCEPT ![c] = @ \/ d.discarded]
           /\ IF d.ret.some
              THEN \E h \in { handle_message(compositor[c].globals,
                                             compositor[c].objects, d.ret.msg) } :
                       /\ compositor' = [compositor EXCEPT ![c].objects = h.objects]
                       /\ handled' = [handled EXCEPT ![c] = Append(@, d.ret.msg)]
                       /\ IF h.responses # << >>
                          THEN \E data \in { encode_batch(h.responses) } :
                                 \E k \in Polls(data) :
                                   /\ outbound' = [outbound EXCEPT ![c] =
                                          write_all(@, SubSeq(data, 1, k))]
                                   /\ response_data' = [response_data EXCEPT ![c] =
                                          IF k < Len(data) THEN data ELSE << >>]
                                   /\ written' = [written EXCEPT ![c] =
                                          IF k < Len(data) THEN k ELSE 0]
                          ELSE UNCHANGED << outbound, response_data, written >>
                       /\ task' = task
              ELSE /\ task' = [task EXCEPT ![c] = IF d.panic THEN "panicked" ELSE "read"]
                   /\ UNCHANGED << compositor, handled, outbound, response_data,
                                   written >>
    /\ UNCHANGED << libVars, script, inbound, peer_closed, codecVars, decoderVars, compVars,
                    renderVars >>

\* a later poll of the pending write_all: it has written k octets in all, and
\* with the last of them the task is back in the while-let loop
WriteMore(c, k) ==
    /\ task[c] = "decode"
    /\ response_data[c] # << >>
    /\ k > written[c]
    /\ k <= Len(response_data[c])
    /\ outbound' = [outbound EXCEPT ![c] =
                        write_all(@, SubSeq(response_data[c], written[c] + 1, k))]
    /\ response_data' = [response_data EXCEPT ![c] =
                             IF k < Len(@) THEN @ ELSE << >>]
    /\ written' = [written EXCEPT ![c] = IF k < Len(response_data[c]) THEN k ELSE 0]
    /\ UNCHANGED << libVars, script, inbound, peer_closed, task, decoder, compositor,
                    handled, corrupt, codecVars, decoderVars, compVars, renderVars >>

\* the pending write_all fails: the ? returns the error from handle_client
\* and response_data is dropped
WriteError(c) ==
    /\ task[c] = "decode"
    /\ response_data[c] # << >>
    /\ task' = [task EXCEPT ![c] = "write_failed"]
    /\ response_data' = [response_data EXCEPT ![c] = << >>]
    /\ written' = [written EXCEPT ![c] = 0]
    /\ UNCHANGED << libVars, script, inbound, peer_closed, decoder, compositor, outbound,
                    handled, corrupt, codecVars, decoderVars, compVars, renderVars >>

\* the same turn with a write_all that fails at its first poll, after cut
\* octets: the ? returns the error from handle_client
ServeWriteError(c, cut) ==
    /\ task[c] = "decode"
    /\ response_data[c] = << >>
    /\ \E d \in { WireDecoder_decode(decoder[c]) } :
           /\ d.ret.some
           /\ \E h \in { handle_message(compositor[c].globals,
                                         compositor[c].objects, d.ret.msg) } :
                  /\ h.responses # << >>
                  /\ \E data \in { encode_batch(h.responses) } :
                         /\ cut < Len(data)
                         /\ outbound' = [outbound EXCEPT ![c] =
                                            write_all(@, SubSeq(data, 1, cut))]
                  /\ compositor' = [compositor EXCEPT ![c].objects = h.objects]
                  /\ handled' = [handled EXCEPT ![c] = Append(@, d.ret.msg)]
           /\ decoder' = [decoder EXCEPT ![c] = d.buffer]
    /\ task' = [task EXCEPT ![c] = "write_failed"]
    /\ UNCHANGED << libVars, writeVars, script, inbound, peer_closed, corrupt, codecVars,
                    decoderVars, compVars, renderVars >>

\* the steps a spawned task takes when the runtime polls it and its I/O is
\* ready and succeeds
Run(c) ==
    \/ \E size \in ReadSizes : Read(c, size)
    \/ ReadZero(c)
    \/ Serve(c)
    \/ \E k \in Polls(response_data[c]) : WriteMore(c, k)

ServerNext ==
    \E c \in Conns :
        \/ Accept(c)
        \/ PeerClose(c)
        \/ \E size \in ReadSizes : Read(c, size)
        \/ ReadZero(c)
        \/ ReadError(c)
        \/ Serve(c)
        \/ \E k \in Polls(response_data[c]) : WriteMore(c, k)
        \/ WriteError(c)
        \/ \E cut \in WriteCuts : ServeWriteError(c, cut)

SpecServer == ServerInit /\ [][ServerNext]_vars

\* the runtime keeps polling every spawned task: a task whose read or write
\* can complete does complete it
SpecServerFair == SpecServer /\ \A c \in Conns : WF_vars(Run(c))

---------------------------------------------------------------------------
(* The pixel-frame channel: RenderFrame and FrameDecoder                   *)

\* a frame to encode and decode again, or octets to decode
FrameInit ==
    /\ CodecIdle
    /\ DecoderNew(<< >>, << >>)
    /\ CompositorNew
    /\ LibIdle
    /\ ServerIdle
    /\ FrameDecoderNew(<< >>, << >>)
    /\ ClientNew
    /\ f_out = Err("not run")
    /\ \/ /\ f_in \in FrameInputs
          /\ f_wire = << >>
          /\ f_pc = "new"
       \/ /\ f_in = RenderFrame_new(0, 0, "ARGB8888", << >>)
          /\ f_wire \in RawFrames
          /\ f_pc = "wire"

\* let encoded = frame.encode();
FrameEncode ==
    /\ f_pc = "new"
    /\ f_wire' = RenderFrame_encode(f_in)
    /\ f_pc' = "encoded"
    /\ UNCHANGED << libVars, f_in, f_out, frameDecoderVars, clientVars, codecVars,
                    decoderVars, compVars, serverVars >>

\* let decoded = RenderFrame::decode(&encoded);
FrameDecode ==
    /\ f_pc \in { "encoded", "wire" }
    /\ f_out' = RenderFrame_decode(f_wire)
    /\ f_pc' = IF f_pc = "encoded" THEN "decoded" ELSE "parsed"
    /\ UNCHANGED << libVars, f_in, f_wire, frameDecoderVars, clientVars, codecVars,
                    decoderVars, compVars, serverVars >>

FrameNext == FrameEncode \/ FrameDecode

SpecFrame == FrameInit /\ [][FrameNext]_vars

\* a stream of up to MaxFrames frames; garbage and one frame; the test's frame
FrameDecoderInit ==
    /\ CodecIdle
    /\ DecoderNew(<< >>, << >>)
    /\ CompositorNew
    /\ LibIdle
    /\ ServerIdle
    /\ FrameIdle
    /\ ClientNew
    /\ \/ \E F \in SeqsUpTo(StreamFrames, MaxFrames) : FrameDecoderNew(<< >>, F)
       \/ \E g \in Garbage, f \in StreamFrames : FrameDecoderNew(g, << f >>)
       \/ FrameDecoderNew(<< >>, << TestFrame >>)

\* decoder.push(chunk): the next n octets of the stream. Frames are cut into
\* chunks anywhere; garbage is pushed whole, on its own or with the frame
\* that follows it.
FramePush(n) ==
    /\ n >= 1
    /\ n <= Len(fd_pending)
    /\ \/ fd_garbage = << >>
       \/ n = Len(fd_pending)
       \/ fd_op = "new" /\ n = Len(fd_garbage)
    /\ fd_buffer' = FrameDecoder_push(fd_buffer, SubSeq(fd_pending, 1, n))
    /\ fd_pending' = SubSeq(fd_pending, n + 1, Len(fd_pending))
    /\ fd_op' = "push"
    /\ UNCHANGED << libVars, fd_garbage, fd_frames, fd_received, fd_result, frameVars,
                    clientVars, codecVars, decoderVars, compVars, serverVars >>

\* decoder.decode()
FramePop ==
    /\ \E d \in { FrameDecoder_decode(fd_buffer) } :
           /\ fd_buffer' = d.buffer
           /\ fd_result' = d.ret
           /\ fd_received' = IF d.ret.some THEN Append(fd_received, d.ret.msg)
                                            ELSE fd_received
           /\ fd_op' = IF ~d.ret.some /\ d.buffer = fd_buffer THEN "idle" ELSE "decode"
    /\ UNCHANGED << libVars, fd_garbage, fd_frames, fd_pending, frameVars, clientVars,
                    codecVars, decoderVars, compVars, serverVars >>

FrameDecoderNext ==
    \/ \E n \in (1..MaxChunk) \cup { Len(fd_garbage), Len(fd_pending) } : FramePush(n)
    \/ FramePop

SpecFrameDecoder == FrameDecoderInit /\ [][FrameDecoderNext]_vars

---------------------------------------------------------------------------
(* One RenderClient and its presenter                                      *)

ClientInit ==
    /\ CodecIdle
    /\ DecoderNew(<< >>, << >>)
    /\ CompositorNew
    /\ LibIdle
    /\ ServerIdle
    /\ FrameIdle
    /\ FrameDecoderNew(<< >>, << >>)
    /\ ClientNew

\* client.connect().await: the presenter accepts a new connection, or the
\* connection attempt fails
Connect(accepts) ==
    /\ rc_ops < MaxOps
    /\ \E r \in { RenderClient_connect(rc_stream,
                                        IF accepts THEN Len(rc_peers) + 1 ELSE 0) } :
           /\ rc_stream' = r.stream
           /\ rc_result' = r.result
    /\ rc_peers' = IF accepts THEN Append(rc_peers, << >>) ELSE rc_peers
    /\ rc_op' = "connect"
    /\ rc_ops' = rc_ops + 1
    /\ UNCHANGED << libVars, rc_frame, frameVars, frameDecoderVars, codecVars, decoderVars,
                    compVars, serverVars >>

\* client.send_frame(&frame).await
SendFrame(frame, fails, cut) ==
    /\ rc_ops < MaxOps
    /\ \E r \in { RenderClient_send_frame(rc_stream, frame, fails, cut) } :
           /\ rc_peers' = IF rc_stream # 0
                          THEN [rc_peers EXCEPT ![rc_stream] = @ \o r.written]
                          ELSE rc_peers
           /\ rc_result' = r.result
    /\ rc_frame' = frame
    /\ rc_op' = "send_frame"
    /\ rc_ops' = rc_ops + 1
    /\ UNCHANGED << libVars, rc_stream, frameVars, frameDecoderVars, codecVars, decoderVars,
                    compVars, serverVars >>

\* client.disconnect()
Disconnect ==
    /\ rc_ops < MaxOps
    /\ rc_stream' = disconnect(rc_stream)
    /\ rc_result' = Unit
    /\ rc_op' = "disconnect"
    /\ rc_ops' = rc_ops + 1
    /\ UNCHANGED << libVars, rc_peers, rc_frame, frameVars, frameDecoderVars, codecVars,
                    decoderVars, compVars, serverVars >>

ClientNext ==
    \/ \E accepts \in BOOLEAN : Connect(accepts)
    \/ \E frame \in StreamFrames, fails \in BOOLEAN, cut \in WriteCuts :
           SendFrame(frame, fails, cut)
    \/ Disconnect

SpecClient == ClientInit /\ [][ClientNext]_vars

---------------------------------------------------------------------------
(* The record codec and the streaming decoder                              *)

\* C1: for every record with a nonzero object_id, any 16-bit opcode and a
\* payload of 0..65528 octets, Message::decode(Message::encode(m)) succeeds
\* and returns the same object_id, opcode and payload.
C1_RoundTrip ==
    m_pc = "decoded" =>
        /\ m_out.ok
        /\ m_out.msg.object_id = m_in.object_id
        /\ m_out.msg.opcode = m_in.opcode
        /\ m_out.msg.payload = m_in.payload

\* s is a prefix of t
IsPrefix(s, t) == Len(s) <= Len(t) /\ s = SubSeq(t, 1, Len(s))

\* the whole stream has been pushed and decode() has just returned None
Drained == pending = << >> /\ op = "decode" /\ ~result.some

\* C2: for any sequence of records M and any partition of the concatenation
\* of their encodings into chunks, the records decode() returns are those of
\* M in order (never anything else), and all of M once the decoder is drained.
C2_StreamYieldsSent ==
    (prefix = << >> /\ clears = 0) =>
        /\ IsPrefix(received, sent)
        /\ Drained => received = sent

\* C3: whatever octets are pushed in whatever chunks, no decode() call panics
\* and each returns None or a record whose size field s is in 8..65536 and
\* whose payload has s - 8 octets.
C3_WellFormedOrNone ==
    /\ ~panicked
    /\ (op = "decode" /\ result.some) =>
          /\ size_seen >= HEADER_SIZE
          /\ size_seen <= MAX_MESSAGE_SIZE
          /\ Len(result.msg.payload) = size_seen - HEADER_SIZE

\* a record was decoded out of raw octets the client sent unframed
C3_Witness ==
    /\ op = "decode"
    /\ result.some
    /\ prefix # << >>
    /\ \A i \in 1..Len(sent) : sent[i] # result.msg

\* the buffer holds at least a header, and its size field is outside 8..65536
BadHeader(buf) ==
    /\ Len(buf) >= HEADER_SIZE
    /\ half_at(buf, 7) < HEADER_SIZE \/ half_at(buf, 7) > MAX_MESSAGE_SIZE

\* the buffer holds exactly one complete record with a valid size field
OneRecord(buf) ==
    /\ Len(buf) >= HEADER_SIZE
    /\ half_at(buf, 7) = Len(buf)
    /\ Len(buf) <= MAX_MESSAGE_SIZE

\* C4: with at least 8 octets buffered and a size field below 8 or above
\* 65536, decode() discards the whole buffer and returns None; a well-formed
\* record pushed after that is returned by the next decode().
C4_DiscardThenRecover ==
    [][ /\ (op' = "decode" /\ BadHeader(buffer)) =>
              (buffer' = << >> /\ result' = None /\ received' = received)
        /\ (op' = "decode" /\ cleared >= 1 /\ OneRecord(buffer)) =>
              /\ result' = Some(Message_new(from_le_bytes(buffer, 1),
                                            half_at(buffer, 5),
                                            SubSeq(buffer, 9, Len(buffer))))
              /\ buffer' = << >>
      ]_vars

\* a corrupt header was discarded, and the record that followed it was decoded
C4_Witness ==
    /\ cleared >= 1
    /\ op = "decode"
    /\ result.some
    /\ sent # << >>
    /\ received = sent
    /\ buffer = << >>

\* Every record whose total size fits the 16-bit size field (at most 65535)
\* does round-trip through Message::encode and Message::decode.
RoundTripBelow64K ==
    (m_pc = "decoded" /\ wire_size(m_in) < U16) =>
        m_out = Ok(Message_new(m_in.object_id, m_in.opcode, m_in.payload))

\* A record of total size 65536 is encoded with size field 0 and rejected.
SizeWrapsAt64K ==
    (m_pc = "decoded" /\ wire_size(m_in) = U16) =>
        (half_at(m_wire, 7) = 0 /\ ~m_out.ok)

\* A stream of records that all fit the size field is decoded to exactly those
\* records, under every partition into chunks.
StreamYieldsEncodable ==
    (prefix = << >> /\ clears = 0 /\ \A i \in 1..Len(sent) : wire_size(sent[i]) < U16) =>
        /\ IsPrefix(received, sent)
        /\ Drained => received = sent

---------------------------------------------------------------------------
(* The protocol engine                                                     *)

\* the request being handled was dispatched to (iface, opcode) with a payload
\* of at least n octets
Dispatched(iface, opcode, n) ==
    /\ request.some
    /\ interface = iface
    /\ request.msg.opcode = opcode
    /\ Len(request.msg.payload) >= n

\* the first and the last 32-bit word of the payload of the request
FirstWord == from_le_bytes(request.msg.payload, 1)

LastWord == from_le_bytes(request.msg.payload, Len(request.msg.payload) - 3)

\* the globals in the order and with the versions the registry announces them
Announced ==
    << << "wl_compositor", 5 >>, << "wl_subcompositor", 1 >>, << "wl_shm", 1 >>,
       << "wl_output", 4 >>, << "wl_seat", 8 >>, << "wl_data_device_manager", 3 >>,
       << "xdg_wm_base", 5 >>, << "wp_viewporter", 1 >>, << "zwp_linux_dmabuf_v1", 4 >> >>

\* the record is a registry global event on R announcing (name, iface, version)
IsGlobalEvent(rec, R, name, iface, version) ==
    LET p == rec.payload
        n == Len(as_bytes(iface))
    IN  /\ rec.object_id = R
        /\ rec.opcode = 0
        /\ Len(p) >= 12 + n
        /\ from_le_bytes(p, 1) = name
        /\ from_le_bytes(p, 5) = n + 1
        /\ SubSeq(p, 9, 8 + n) = as_bytes(iface)
        /\ from_le_bytes(p, Len(p) - 3) = version

\* C5: wl_display.get_registry with payload u32 R binds R to wl_registry and
\* returns exactly 9 records on R with opcode 0, announcing the nine globals
\* in the canonical order with names 1..9.
C5_RegistryAnnouncesGlobals ==
    Dispatched("wl_display", 1, 4) =>
        /\ FirstWord \in DOMAIN objects
        /\ objects[FirstWord] = "wl_registry"
        /\ Len(responses) = 9
        /\ \A i \in 1..9 :
              IsGlobalEvent(responses[i], FirstWord, i, Announced[i][1], Announced[i][2])

\* the first request of a connection is get_registry(2) on object 1
C5_Witness ==
    /\ request = Some(Message_new(1, 1, << 2, 0, 0, 0 >>))
    /\ interface = "wl_display"
    /\ DOMAIN objects = { 1, 2 }
    /\ objects[1] = "wl_display"
    /\ objects[2] = "wl_registry"
    /\ Len(responses) = 9

\* the payload of wl_output.geometry: i32 0, 0, 1920, 1080, 0, "Winpipe",
\* "Virtual Display", i32 0
GeometryPayload ==
    << 0, 0, 0, 0,  0, 0, 0, 0,  128, 7, 0, 0,  56, 4, 0, 0,  0, 0, 0, 0,
       8, 0, 0, 0,  87, 105, 110, 112, 105, 112, 101, 0,
       16, 0, 0, 0,  86, 105, 114, 116, 117, 97, 108, 32, 68, 105, 115, 112, 108, 97, 121, 0,
       0, 0, 0, 0 >>

\* the payload of wl_output.mode: u32 3, i32 1920, 1080, 60000
ModePayload == << 3, 0, 0, 0,  128, 7, 0, 0,  56, 4, 0, 0,  96, 234, 0, 0 >>

\* C6: a wl_registry.bind whose name selects wl_output (name 4) and whose last
\* four payload octets are X binds X to wl_output and returns exactly four
\* records on X, opcodes 0, 1, 3, 2: geometry, mode, scale = i32 1, done.
C6_OutputInfo ==
    (Dispatched("wl_registry", 0, 8) /\ FirstWord = 4) =>
        /\ LastWord \in DOMAIN objects
        /\ objects[LastWord] = "wl_output"
        /\ responses = << Message_new(LastWord, 0, GeometryPayload),
                          Message_new(LastWord, 1, ModePayload),
                          Message_new(LastWord, 3, << 1, 0, 0, 0 >>),
                          Message_new(LastWord, 2, << >>) >>

\* wl_output was bound through a registry that get_registry had bound, with the
\* interface string and version a client sends
C6_Witness ==
    /\ Dispatched("wl_registry", 0, 28)
    /\ FirstWord = 4
    /\ request.msg.object_id = 2
    /\ LastWord = 3
    /\ objects[3] = "wl_output"
    /\ Len(responses) = 4

\* C7: get_toplevel with new id T on an xdg_surface X returns exactly two
\* records, the toplevel configure first: (T, 0, i32 1920, i32 1080, u32 0),
\* then (X, 0, u32 1).
C7_ToplevelConfigureFirst ==
    Dispatched("xdg_surface", 1, 4) =>
        /\ objects[FirstWord] = "xdg_toplevel"
        /\ responses =
              << Message_new(FirstWord, 0,
                             << 128, 7, 0, 0,  56, 4, 0, 0,  0, 0, 0, 0 >>),
                 Message_new(request.msg.object_id, 0, << 1, 0, 0, 0 >>) >>

\* create_surface 1, get_xdg_surface 2 and get_toplevel 3 were handled: all
\* three objects are in the table and the get_toplevel has just been answered
C7_Witness ==
    /\ Dispatched("xdg_surface", 1, 4)
    /\ request.msg.object_id = 2
    /\ FirstWord = 3
    /\ DOMAIN objects = { 1, 2, 3 }
    /\ objects[1] = "wl_surface"
    /\ objects[2] = "xdg_surface"
    /\ objects[3] = "xdg_toplevel"
    /\ Len(responses) = 2

\* C8: every wl_display.sync with new id C binds C to wl_callback and returns
\* exactly one record (C, 0, u32 1), whatever was handled before.
C8_SyncSerialOne ==
    Dispatched("wl_display", 0, 4) =>
        /\ objects[FirstWord] = "wl_callback"
        /\ responses = << Message_new(FirstWord, 0, << 1, 0, 0, 0 >>) >>

\* a sync answered after an earlier sync had bound another callback
C8_Witness ==
    /\ Dispatched("wl_display", 0, 4)
    /\ Len(responses) = 1
    /\ \E k \in DOMAIN objects : k # FirstWord /\ objects[k] = "wl_callback"

\* C9: wl_shm.create_pool binds the id in payload[0..4] to wl_shm_pool and
\* returns exactly two records on the receiving wl_shm object, opcode 0,
\* payloads u32 0 then u32 1.
C9_PoolFormats ==
    Dispatched("wl_shm", 0, 8) =>
        /\ objects[FirstWord] = "wl_shm_pool"
        /\ responses = << Message_new(request.msg.object_id, 0, << 0, 0, 0, 0 >>),
                          Message_new(request.msg.object_id, 0, << 1, 0, 0, 0 >>) >>

\* a pool was created on a wl_shm object that is still bound, under another id
C9_Witness ==
    /\ Dispatched("wl_shm", 0, 8)
    /\ FirstWord # request.msg.object_id
    /\ objects[request.msg.object_id] = "wl_shm"
    /\ objects[FirstWord] = "wl_shm_pool"
    /\ Len(responses) = 2

\* C10: a wl_registry.bind changes the object table only if a global with the
\* requested name exists, and then binds new_id to that global's interface and
\* nothing else; a bind of a name that matches no global leaves the table
\* unchanged; a bind of any global other than wl_output returns no replies.
C10_BindOnlyExistingGlobal ==
    [][ (request'.some /\ interface' = "wl_registry" /\ request'.msg.opcode = 0) =>
          LET p == request'.msg.payload
              name == from_le_bytes(p, 1)
              new_id == from_le_bytes(p, Len(p) - 3)
              named == { i \in 1..Len(globals) : globals[i].name = name }
          IN  IF Len(p) < 4
              THEN objects' = objects /\ responses' = << >>
              ELSE /\ named = { } => objects' = objects
                   /\ objects' # objects =>
                         \E i \in named :
                            /\ Len(p) >= 8
                            /\ DOMAIN objects' = DOMAIN objects \cup { new_id }
                            /\ objects'[new_id] = globals[i].interface
                            /\ \A k \in DOMAIN objects \ { new_id } :
                                  objects'[k] = objects[k]
                   /\ (\A i \in named : globals[i].interface # "wl_output") =>
                         responses' = << >>
      ]_vars

\* a bind of name 10, which no global has, was handled and bound nothing
C10_Witness ==
    /\ Dispatched("wl_registry", 0, 8)
    /\ FirstWord = 10
    /\ LastWord \notin DOMAIN objects
    /\ responses = << >>

\* the (interface, opcode) pairs handle_message has an arm for
DispatchTable ==
    { << "wl_display", 0 >>, << "wl_display", 1 >>, << "wl_registry", 0 >>,
      << "wl_compositor", 0 >>, << "wl_shm", 0 >>, << "xdg_wm_base", 2 >>,
      << "xdg_surface", 1 >>, << "xdg_surface", 4 >>, << "wl_surface", 6 >> }

\* C11: a request whose target object id is not in the object table, or whose
\* (interface, opcode) pair is not in the dispatch table, returns zero replies
\* and leaves the object table unchanged.
C11_UnknownIsIgnored ==
    [][ (request = None /\ request'.some) =>
          LET msg == request'.msg
          IN  (\/ msg.object_id \notin DOMAIN objects
               \/ << objects[msg.object_id], msg.opcode >> \notin DispatchTable) =>
                  /\ responses' = << >>
                  /\ objects' = objects
      ]_vars

\* after other objects were bound, a request to an id that is in no table
\* entry was handled and answered with nothing
C11_Witness ==
    /\ request.some
    /\ request.msg.object_id \notin DOMAIN objects
    /\ Len(request.msg.payload) >= 4
    /\ interface = "unknown"
    /\ responses = << >>
    /\ Cardinality(DOMAIN objects) = 3

\* C12: handle_message changes no engine state other than the object table:
\* over every request and every history the list of globals, the next global
\* name and the id allocator, seeded at 2, stay what they were.
C12_EngineStateFramed ==
    [][ /\ globals' = globals
        /\ next_global_name' = next_global_name
        /\ allocator' = allocator
        /\ allocator = 2
      ]_vars

\* a request that changed the object table and was answered, with the nine
\* globals, the next name 10 and the allocator at 2
C12_Witness ==
    /\ request.some
    /\ responses # << >>
    /\ objects # Compositor_new.objects
    /\ Len(globals) = 9
    /\ next_global_name = 10
    /\ allocator = 2


---------------------------------------------------------------------------
(* The connection tasks                                                    *)

\* the octets a task writes for the requests msgs when its compositor, with
\* the object table objs, handles them in this order
RECURSIVE replies(_, _)
replies(objs, msgs) ==
    IF msgs = << >> THEN << >>
    ELSE LET h == handle_message(Compositor_new.globals, objs, Head(msgs))
         IN  encode_batch(h.responses) \o replies(h.objects, Tail(msgs))

\* the object table after the same
RECURSIVE table(_, _)
table(objs, msgs) ==
    IF msgs = << >> THEN objs
    ELSE table(handle_message(Compositor_new.globals, objs, Head(msgs)).objects, Tail(msgs))

Front(s) == SubSeq(s, 1, Len(s) - 1)

IsSuffix(s, t) == Len(s) <= Len(t) /\ s = SubSeq(t, Len(t) - Len(s) + 1, Len(t))

\* the requests of a script, and whether all of its items are well-formed
ScriptMsgs(items) == [i \in 1..Len(items) |-> items[i].msg]

WellFormed(items) == \A i \in 1..Len(items) : ~items[i].corrupt

\* the octets of response_data that the pending write_all has yet to write
Unwritten(c) == SubSeq(response_data[c], written[c] + 1, Len(response_data[c]))

\* C13: within one connection the octets written to the client are the
\* concatenation, in request arrival order, of the encoded replies of each
\* request, the replies of one request in the order handle_message returned
\* them; only a write that failed leaves the replies of the last request cut
\* short.
C13_RepliesInArrivalOrder ==
    \A c \in Conns :
        LET all == replies(Compositor_new.objects, handled[c])
        IN  /\ WellFormed(script[c]) => IsPrefix(handled[c], ScriptMsgs(script[c]))
            /\ IF task[c] = "write_failed"
               THEN /\ IsPrefix(outbound[c], all)
                    /\ IsPrefix(replies(Compositor_new.objects, Front(handled[c])),
                                outbound[c])
               ELSE outbound[c] \o Unwritten(c) = all

\* a client sent get_registry(3) and sync(2); both were handled, and the nine
\* global events on object 3 were written ahead of the callback's done event
C13_Witness ==
    \E c \in Conns :
        /\ script[c] = << RegistryRequest, SyncRequest >>
        /\ handled[c] = ScriptMsgs(script[c])
        /\ Len(outbound[c]) > 9 * HEADER_SIZE + 12
        /\ from_le_bytes(outbound[c], 1) = 3
        /\ SubSeq(outbound[c], Len(outbound[c]) - 11, Len(outbound[c]))
              = Message_encode(Message_new(2, 0, << 1, 0, 0, 0 >>))

\* a task is suspended in write_all: the request is handled and taken off the
\* decoder, and no octet of its replies is written yet
WritePending ==
    \E c \in Conns :
        /\ task[c] = "decode"
        /\ handled[c] # << >>
        /\ response_data[c] # << >>
        /\ written[c] = 0
        /\ outbound[c] = << >>

\* a task was suspended in write_all after five octets, and the write failed
WriteFailedAfterFive ==
    \E c \in Conns :
        /\ task[c] = "write_failed"
        /\ Len(outbound[c]) = 5
        /\ Len(handled[c]) = 1

\* C14: when a client sends an invalid stream (a record whose size field is
\* outside [8, 65536]), the server sends that client no further replies and
\* closes the connection: once its decoder has met such a size field, a task
\* writes nothing more, and the only step it still takes is to terminate.
C14_InvalidStreamCloses ==
    [][ \A c \in Conns :
           corrupt[c] =>
               /\ outbound'[c] = outbound[c]
               /\ task'[c] # task[c] => Terminated(c)'
      ]_vars

\* a client sent a corrupt header and then a sync; the task discarded the
\* header, answered the sync and waits for the next read
C14_Witness ==
    \E c \in Conns :
        /\ script[c] = << BrokenHeader, SyncRequest >>
        /\ corrupt[c]
        /\ handled[c] = << SyncRequest.msg >>
        /\ outbound[c] = Message_encode(Message_new(2, 0, << 1, 0, 0, 0 >>))
        /\ task[c] = "read"

\* C15: a connection task eventually terminates once the peer has closed the
\* stream (a read returns zero) or a read or write fails; it writes nothing
\* after that point; and it terminates for no other reason, so that an idle
\* connection is held indefinitely.
C15_TerminatesOnlyOnCloseOrError ==
    /\ \A c \in Conns :
          (peer_closed[c] /\ task[c] \in { "read", "decode" }) ~> Terminated(c)
    /\ [][ \A c \in Conns :
              Terminated(c) => (task'[c] = task[c] /\ outbound'[c] = outbound[c]) ]_vars
    /\ [][ \A c \in Conns :
              (~Terminated(c) /\ Terminated(c)') =>
                  \/ task'[c] = "closed" /\ peer_closed[c] /\ inbound[c] = << >>
                  \/ task'[c] \in { "read_failed", "write_failed" } ]_vars

\* one client closed after its requests were answered and its task returned;
\* the other sent its requests and stays connected, its task waiting in read
C15_Witness ==
    \E c, d \in Conns :
        /\ task[c] = "closed"
        /\ outbound[c] # << >>
        /\ task[d] = "read"
        /\ handled[d] # << >>
        /\ inbound[d] = << >>
        /\ ~peer_closed[d]

\* what a task keeps for its connection
ConnState(c) ==
    << decoder[c], compositor[c], outbound[c], handled[c], task[c], response_data[c],
       written[c] >>

\* C16: with two connections served concurrently, under every interleaving of
\* their reads, requests and terminations, a step that changes what one task
\* keeps leaves what the other keeps as it was; the decoder buffer holds
\* octets of the connection's own stream only, the object table is what the
\* connection's own requests make it, and the replies to a well-formed stream
\* that was read to its end are those a sole connection gets.
C16_ConnectionsIsolated ==
    /\ [][ \A c, d \in Conns :
              (c # d /\ ConnState(c)' # ConnState(c)) => ConnState(d)' = ConnState(d) ]_vars
    /\ [](\A c \in Conns :
              /\ IsSuffix(decoder[c] \o inbound[c], ScriptWire(script[c]))
              /\ compositor[c] = [Compositor_new EXCEPT
                                     !.objects = table(Compositor_new.objects, handled[c])]
              /\ (/\ WellFormed(script[c])
                  /\ inbound[c] = << >>
                  /\ task[c] \in { "read", "closed" }) =>
                     outbound[c] = replies(Compositor_new.objects, ScriptMsgs(script[c])))

\* one task returned after its client closed, having answered it; the other,
\* serving a different script, has handled a request and holds the first
\* octets of the next in its decoder
C16_Witness ==
    \E c, d \in Conns :
        /\ task[c] = "closed"
        /\ outbound[c] # << >>
        /\ script[d] # script[c]
        /\ task[d] = "read"
        /\ handled[d] # << >>
        /\ decoder[d] # << >>

---------------------------------------------------------------------------
(* The pixel frames                                                        *)

\* the number a format is sent as
FormatNumber(format) == CASE format = "ARGB8888" -> 0 [] format = "XRGB8888" -> 1

\* C17: for every pixel frame f of format ARGB8888 or XRGB8888,
\* RenderFrame::decode(RenderFrame::encode(f)) succeeds and returns a frame
\* with the same width, height, format and data, and the encoding is the
\* 20-octet header ("WPRD", width, height, format, data_len, little-endian)
\* followed by the data.
C17_FrameRoundTrip ==
    f_pc = "decoded" =>
        /\ f_out.ok
        /\ f_out.msg.width = f_in.width
        /\ f_out.msg.height = f_in.height
        /\ f_out.msg.format = f_in.format
        /\ f_out.msg.data = f_in.data
        /\ Len(f_wire) = 20 + Len(f_in.data)
        /\ SubSeq(f_wire, 1, 4) = << 87, 80, 82, 68 >>
        /\ from_le_bytes(f_wire, 5) = f_in.width
        /\ from_le_bytes(f_wire, 9) = f_in.height
        /\ from_le_bytes(f_wire, 13) = FormatNumber(f_in.format)
        /\ from_le_bytes(f_wire, 17) = Len(f_in.data)
        /\ SubSeq(f_wire, 21, Len(f_wire)) = f_in.data

\* an XRGB8888 frame of the largest width and 400 data octets came back
C17_Witness ==
    /\ f_pc = "decoded"
    /\ f_in.width = 2147483647
    /\ f_in.height = 100
    /\ f_in.format = "XRGB8888"
    /\ Len(f_in.data) = 400
    /\ Len(f_wire) = 420
    /\ f_out = Ok(f_in)

\* the garbage holds the four octets of the magic somewhere
HasMagic(g) == \E i \in 1..(Len(g) - 3) : SubSeq(g, i, i + 3) = << 87, 80, 82, 68 >>

\* everything was pushed and decode() has returned None without consuming
FrameDrained == fd_pending = << >> /\ fd_op = "idle"

\* C18, as stated: for any garbage octet sequence g and any valid pixel frame
\* f, pushing g followed by encode(f) into a fresh FrameDecoder and calling
\* decode() repeatedly yields f, bitwise equal, and yields no other frame.
C18_AnyGarbage ==
    fd_garbage # << >> =>
        /\ IsPrefix(fd_received, fd_frames)
        /\ FrameDrained => fd_received = fd_frames

\* C18, for garbage that does not hold the magic: pushing g followed by
\* encode(f) and calling decode() repeatedly yields f, bitwise equal, and
\* yields no other frame.
C18_ResyncPastGarbage ==
    (fd_garbage # << >> /\ ~HasMagic(fd_garbage)) =>
        /\ IsPrefix(fd_received, fd_frames)
        /\ FrameDrained => fd_received = fd_frames

\* after 25 octets of garbage, a frame whose data is the magic came out whole
C18_Witness ==
    /\ fd_garbage = Fill(25, 7)
    /\ FrameDrained
    /\ Len(fd_frames) = 1
    /\ fd_frames[1].data = << 87, 80, 82, 68 >>
    /\ fd_received = fd_frames
    /\ fd_buffer = << >>

\* the octets of the frame at the front of the stream: the one after those
\* received (0: there is none)
FrontSize ==
    IF Len(fd_received) < Len(fd_frames)
    THEN 20 + Len(fd_frames[Len(fd_received) + 1].data)
    ELSE 0

\* C19: for a sequence of valid frames F cut into chunks anywhere, pushing the
\* chunks in order and calling decode() yields exactly the frames of F in
\* order; decode() returns None while fewer than 20 + data_len octets of the
\* front frame are buffered, and the front frame once they are.
C19_ChunkedFramesInOrder ==
    /\ [](fd_garbage = << >> =>
            /\ IsPrefix(fd_received, fd_frames)
            /\ (fd_pending = << >> /\ fd_op \in { "decode", "idle" } /\ ~fd_result.some) =>
                  fd_received = fd_frames)
    /\ [][ (fd_garbage = << >> /\ fd_op' \in { "decode", "idle" }) =>
              IF FrontSize = 0 \/ Len(fd_buffer) < FrontSize
              THEN fd_result' = None
              ELSE fd_result' = Some(fd_frames[Len(fd_received) + 1])
         ]_vars

\* of two different frames the first was returned, and decode() then returned
\* None on the first octets of the second
C19_Witness ==
    /\ fd_garbage = << >>
    /\ Len(fd_frames) = 2
    /\ fd_frames[1] # fd_frames[2]
    /\ fd_received = << fd_frames[1] >>
    /\ fd_op = "idle"
    /\ fd_buffer # << >>
    /\ fd_pending # << >>

\* C20: decoding a pixel frame whose format field is neither 0 nor 1 succeeds
\* and yields format ARGB8888; format 0 decodes to ARGB8888 and format 1 to
\* XRGB8888. (Decoding succeeds whenever the magic is there and the header and
\* the data it announces are complete.)
C20_UnknownFormatIsARGB ==
    f_pc \in { "decoded", "parsed" } =>
        LET complete == /\ Len(f_wire) >= 20
                        /\ SubSeq(f_wire, 1, 4) = << 87, 80, 82, 68 >>
                        /\ Len(f_wire) >= 20 + from_le_bytes(f_wire, 17)
        IN  /\ f_out.ok <=> complete
            /\ f_out.ok =>
                  f_out.msg.format =
                      IF from_le_bytes(f_wire, 13) = 1 THEN "XRGB8888" ELSE "ARGB8888"

\* a complete frame with format field 65536 was decoded as ARGB8888
C20_Witness ==
    /\ f_pc = "parsed"
    /\ from_le_bytes(f_wire, 13) = 65536
    /\ f_out.ok
    /\ f_out.msg.format = "ARGB8888"
    /\ f_out.msg.data = << 170, 170 >>


---------------------------------------------------------------------------
(* The object table and the reply payloads                                 *)

\* C22: the object table of a fresh engine is exactly 1 -> wl_display, and no
\* request removes an entry: every id that is in the table before a request
\* is in it afterwards.
C22_ObjectsNeverRemoved ==
    /\ objects = [k \in { 1 } |-> "wl_display"]
    /\ [][DOMAIN objects \subseteq DOMAIN objects']_vars

\* three ids are bound, id 1 among them, after a request that rebound an id
\* that was already in the table
C22_Witness ==
    /\ request.some
    /\ DOMAIN objects = { 1, 2, 3 }
    /\ Len(request.msg.payload) >= 4
    /\ LastWord \in DOMAIN objects
    /\ objects[LastWord] # "wl_display"
    /\ objects[1] = "wl_callback"


\* n zero octets
Zeros(n) == [i \in 1..n |-> 0]

\* the octets from one past offset at up to the next multiple of 4
PadLen(at) == (4 - (at % 4)) % 4

\* the layout of a wl_registry.global payload: name, length of the interface
\* string with its NUL, the octets, the NUL, the padding, the version
GlobalLayout(name, iface, version) ==
    LET n == Len(as_bytes(iface))
    IN  to_le_bytes(name) \o to_le_bytes(n + 1) \o as_bytes(iface) \o << 0 >>
            \o Zeros(PadLen(8 + n + 1)) \o to_le_bytes(version)

\* C23: the payload of every registry global record is u32 name, u32 length
\* of the interface string with its NUL, the interface octets, one NUL, zero
\* padding to the next 4-octet boundary, then u32 version, so the version
\* field starts at a 4-octet-aligned offset.
C23_GlobalPayloadLayout ==
    Dispatched("wl_display", 1, 4) =>
        \A i \in 1..Len(responses) :
            LET p == responses[i].payload
            IN  /\ i <= Len(globals)
                /\ p = GlobalLayout(globals[i].name, globals[i].interface,
                                    globals[i].version)
                /\ (Len(p) - 4) % 4 = 0
                /\ Len(p) - 4 >= 8 + Len(as_bytes(globals[i].interface)) + 1

\* a registry was requested after other requests; the record of wl_seat needs
\* no padding (20 octets) and the record of wl_compositor needs two zeros
C23_Witness ==
    /\ Dispatched("wl_display", 1, 4)
    /\ Cardinality(DOMAIN objects) = 3
    /\ Len(responses) = 9
    /\ Len(responses[5].payload) = 20
    /\ Len(responses[1].payload) = 28
    /\ SubSeq(responses[1].payload, 22, 24) = << 0, 0, 0 >>


\* the table objs with id bound to iface and every other entry kept
Bound(objs, id, iface) ==
    [k \in (DOMAIN objs) \cup { id } |-> IF k = id THEN iface ELSE objs[k]]

\* C24: wl_compositor.create_surface binds the id in payload[0..4] to
\* wl_surface and xdg_wm_base.get_xdg_surface binds the id in payload[0..4] to
\* xdg_surface; both return zero replies, and get_xdg_surface binds whatever
\* the surface id in payload[4..8] is bound to.
C24_SurfaceBindings ==
    [][ (request = None /\ request'.some) =>
          LET msg == request'.msg
              id  == from_le_bytes(msg.payload, 1)
          IN  /\ (interface' = "wl_compositor" /\ msg.opcode = 0 /\ Len(msg.payload) >= 4) =>
                    /\ objects' = Bound(objects, id, "wl_surface")
                    /\ responses' = << >>
              /\ (interface' = "xdg_wm_base" /\ msg.opcode = 2 /\ Len(msg.payload) >= 8) =>
                    /\ objects' = Bound(objects, id, "xdg_surface")
                    /\ responses' = << >>
      ]_vars

\* get_xdg_surface was handled and bound its new id although the surface it
\* names is another id that is not a wl_surface
C24_Witness ==
    /\ Dispatched("xdg_wm_base", 2, 8)
    /\ objects[FirstWord] = "xdg_surface"
    /\ LastWord # FirstWord
    /\ LastWord \in DOMAIN objects
    /\ objects[LastWord] # "wl_surface"
    /\ responses = << >>

\* create_surface was handled and bound its id to wl_surface
C24_SurfaceWitness ==
    /\ Dispatched("wl_compositor", 0, 4)
    /\ objects[FirstWord] = "wl_surface"
    /\ responses = << >>


\* C25: xdg_surface.ack_configure and wl_surface.commit return zero replies
\* and leave the whole engine state unchanged, so every later request is
\* handled the same whether or not one of them was sent before it.
C25_AckAndCommitAreNoOps ==
    [][ (request = None /\ request'.some) =>
          LET msg == request'.msg
          IN  (\/ interface' = "xdg_surface" /\ msg.opcode = 4
               \/ interface' = "wl_surface" /\ msg.opcode = 6) =>
                  /\ responses' = << >>
                  /\ engineVars' = engineVars
                  /\ \A later \in Requests :
                        handle_message(globals', objects', later)
                            = handle_message(globals, objects, later)
      ]_vars

\* a commit was handled on a bound wl_surface and answered with nothing
C25_Witness ==
    /\ Dispatched("wl_surface", 6, 0)
    /\ objects[request.msg.object_id] = "wl_surface"
    /\ responses = << >>

\* an ack_configure was handled on a bound xdg_surface
C25_AckWitness ==
    /\ Dispatched("xdg_surface", 4, 4)
    /\ objects[request.msg.object_id] = "xdg_surface"
    /\ responses = << >>


---------------------------------------------------------------------------
(* The size field and the batch encoding                                   *)

\* C28: for every record whose total size 8 + payload.len() is in [8, 65536],
\* Message::encode emits exactly that many octets, and the little-endian word
\* at offset 4 carries the total size in its high 16 bits and the opcode in
\* its low 16 bits, with no wrap-around of the size.
C28_SizeFieldCarriesTotal ==
    (m_pc \in { "encoded", "decoded" } /\ wire_size(m_in) >= HEADER_SIZE
        /\ wire_size(m_in) <= MAX_MESSAGE_SIZE) =>
        /\ Len(m_wire) = wire_size(m_in)
        /\ half_at(m_wire, 7) = wire_size(m_in)
        /\ half_at(m_wire, 5) = m_in.opcode

\* The same for total sizes that fit 16 bits: the encoding is as long as the
\* record and the word at offset 4 holds the size and the opcode.
SizeFieldBelow64K ==
    (m_pc \in { "encoded", "decoded" } /\ wire_size(m_in) < U16) =>
        /\ Len(m_wire) = wire_size(m_in)
        /\ half_at(m_wire, 7) = wire_size(m_in)
        /\ half_at(m_wire, 5) = m_in.opcode

\* A record of total size 65536 is encoded in 65536 octets whose size field
\* is 0, whatever the opcode.
SizeFieldZeroAt64K ==
    (m_pc \in { "encoded", "decoded" } /\ wire_size(m_in) = U16) =>
        /\ Len(m_wire) = U16
        /\ half_at(m_wire, 7) = 0
        /\ half_at(m_wire, 5) = m_in.opcode


\* the offset of record i in the batch encoding of M: the total size of the
\* records before it
RECURSIVE Offset(_, _)
Offset(M, i) == IF i <= 1 THEN 0 ELSE Offset(M, i - 1) + wire_size(M[i - 1])

\* the octets pending are the encodings of the records of sent, one after the
\* other with nothing between them
IsConcatenation ==
    /\ Len(pending) = Offset(sent, Len(sent) + 1)
    /\ \A i \in 1..Len(sent) :
          SubSeq(pending, Offset(sent, i) + 1, Offset(sent, i) + wire_size(sent[i]))
              = Message_encode(sent[i])

\* the whole batch was pushed into the fresh decoder in one piece and decode()
\* was called until it returned None
BatchDrained == prefix = << >> /\ pushes <= 1 /\ clears = 0 /\ Drained

\* C27: encode_batch of a list of records is the concatenation of the
\* individual encodings in list order with no padding (no octets for the
\* empty list), and pushing that output into a fresh decoder returns the same
\* records in the same order.
C27_BatchRoundTrip ==
    /\ (op = "new" /\ prefix = << >>) => IsConcatenation
    /\ BatchDrained => received = sent

\* The batch encoding is the concatenation of the individual encodings.
BatchIsConcatenation == (op = "new" /\ prefix = << >>) => IsConcatenation

\* A batch of records that all fit the size field is returned by a fresh
\* decoder record for record.
BatchRoundTripEncodable ==
    (BatchDrained /\ \A i \in 1..Len(sent) : wire_size(sent[i]) < U16) =>
        received = sent

\* two records were pushed as one batch and both came back
BatchReturned ==
    /\ BatchDrained
    /\ pushes = 1
    /\ Len(sent) = 2
    /\ received = sent


---------------------------------------------------------------------------
(* The decoder's buffer                                                    *)

\* the step is a call of WireDecoder::decode
IsDecodeCall == pushes' = pushes /\ op' = "decode" /\ ~panicked'

\* C29: when decode() returns a record, the buffered length afterwards is the
\* length before minus the record's total size and the octets left are those
\* that followed the record; when it returns None because fewer than 8 octets
\* or fewer than total_size octets are buffered, the buffer is unchanged.
C29_DecodeConsumesOneRecord ==
    [][ IsDecodeCall =>
          /\ result'.some =>
                /\ Len(buffer') = Len(buffer) - wire_size(result'.msg)
                /\ buffer' = SubSeq(buffer, wire_size(result'.msg) + 1, Len(buffer))
                /\ wire_size(result'.msg) = half_at(buffer, 7)
          /\ (Len(buffer) < HEADER_SIZE \/ Len(buffer) < half_at(buffer, 7)) =>
                /\ ~result'.some
                /\ buffer' = buffer
      ]_vars

\* a record was returned and the octets of a later record stayed buffered
C29_Witness ==
    /\ op = "decode"
    /\ result.some
    /\ buffer # << >>
    /\ Len(received) = 1
    /\ Len(sent) = 2
    /\ IsPrefix(buffer, Message_encode(sent[2]))

\* decode() returned None on a record whose header is buffered and whose
\* payload is not, and kept the octets
C29_KeptPartial ==
    /\ op = "decode"
    /\ ~result.some
    /\ Len(buffer) >= HEADER_SIZE
    /\ size_seen > Len(buffer)


\* the buffer starts with a complete well-formed record: a header whose size
\* field is in 8..65536, and at least that many octets
StartsWithRecord(buf) ==
    /\ Len(buf) >= HEADER_SIZE
    /\ half_at(buf, 7) >= HEADER_SIZE
    /\ half_at(buf, 7) <= MAX_MESSAGE_SIZE
    /\ Len(buf) >= half_at(buf, 7)

\* C30: calling decode() until it returns None drains every decodable
\* record: whenever decode() has returned None, the buffer does not start
\* with a complete well-formed record.
C30_NoneMeansNoRecordBuffered ==
    (op = "decode" /\ ~result.some) => ~StartsWithRecord(buffer)

\* decode() returned None after it had returned the two records of one chunk
C30_Witness ==
    /\ op = "decode"
    /\ ~result.some
    /\ Len(received) = 2
    /\ pushes = 1
    /\ buffer = << >>

\* None with octets left: a header is buffered, its record is not complete
C30_PartialLeft ==
    /\ op = "decode"
    /\ ~result.some
    /\ Len(buffer) >= HEADER_SIZE
    /\ received # << >>

\* the same in the connection loop: a task that is back at read() has no
\* complete record at the front of its decoder
LoopDrainsDecoder ==
    \A c \in Conns : task[c] = "read" => ~StartsWithRecord(decoder[c])


---------------------------------------------------------------------------
(* Object id 0                                                             *)

\* the reply records a task's compositor returns for the requests msgs when
\* it starts with the table objs
RECURSIVE emitted(_, _)
emitted(objs, msgs) ==
    IF msgs = << >> THEN << >>
    ELSE LET h == handle_message(Compositor_new.globals, objs, Head(msgs))
         IN  h.responses \o emitted(h.objects, Tail(msgs))

\* the client of connection c sent object id 0: as a request's target or as
\* the new id of a request
SentZero(c) ==
    \E i \in 1..Len(script[c]) :
        \/ script[c][i].msg.object_id = 0
        \/ /\ Len(script[c][i].msg.payload) >= 4
           /\ from_le_bytes(script[c][i].msg.payload, 1) = 0

\* C26: every record handled by the system has a nonzero object_id: no record
\* the decoder returns to the engine, no key of the object table and no reply
\* record the engine emits has object_id 0, for any client input.
C26_NoZeroObjectId ==
    \A c \in Conns :
        LET out == emitted(Compositor_new.objects, handled[c])
        IN  /\ \A i \in 1..Len(handled[c]) : handled[c][i].object_id # 0
            /\ 0 \notin DOMAIN compositor[c].objects
            /\ \A i \in 1..Len(out) : out[i].object_id # 0

\* The same for the clients that send no object id 0.
NoZeroUnlessSent ==
    \A c \in Conns :
        ~SentZero(c) =>
            LET out == emitted(Compositor_new.objects, handled[c])
            IN  /\ \A i \in 1..Len(handled[c]) : handled[c][i].object_id # 0
                /\ 0 \notin DOMAIN compositor[c].objects
                /\ \A i \in 1..Len(out) : out[i].object_id # 0

\* A request on object 0 and sync(0) are decoded and handled like any other:
\* the table gets the key 0 and the done event is written with object_id 0.
ZeroIsBoundAndAnswered ==
    \A c \in Conns :
        handled[c] = << ZeroTarget.msg, ZeroSync.msg >> =>
            /\ 0 \in DOMAIN compositor[c].objects
            /\ compositor[c].objects[0] = "wl_callback"
            /\ IsPrefix(outbound[c], Message_encode(Message_new(0, 0, << 1, 0, 0, 0 >>)))

\* both requests of the client that sends id 0 were handled and answered
ZeroAnswered ==
    \E c \in Conns :
        /\ handled[c] = << ZeroTarget.msg, ZeroSync.msg >>
        /\ outbound[c] = Message_encode(Message_new(0, 0, << 1, 0, 0, 0 >>))


---------------------------------------------------------------------------
(* The frame forwarder                                                     *)

\* the step is one operation on the RenderClient
ClientCall(name) == rc_ops' = rc_ops + 1 /\ rc_op' = name

\* C21: RenderClient holds no stream when created and after disconnect();
\* send_frame() on a client with no stream returns the protocol error "Not
\* connected" and writes nothing; after a successful connect() the stream is
\* present, and a send_frame() that succeeds has written the encoded frame.
C21_NotConnectedIsAnError ==
    /\ rc_stream = 0
    /\ [][ /\ ClientCall("disconnect") => ~is_connected(rc_stream')
           /\ (ClientCall("send_frame") /\ ~is_connected(rc_stream)) =>
                 /\ rc_result' = Err("Not connected")
                 /\ rc_peers' = rc_peers
                 /\ ~is_connected(rc_stream')
           /\ (ClientCall("connect") /\ rc_result' = Unit) =>
                 /\ is_connected(rc_stream')
                 /\ rc_stream' \in 1..Len(rc_peers')
           /\ (ClientCall("send_frame") /\ is_connected(rc_stream)) =>
                 /\ rc_result' # Err("Not connected")
                 /\ rc_result' = Unit =>
                       rc_peers' = [rc_peers EXCEPT ![rc_stream] =
                                       @ \o RenderFrame_encode(rc_frame')]
         ]_vars

\* a frame was sent over a connection, the client disconnected, and the next
\* send_frame() was refused: the presenter holds the one frame only
C21_Witness ==
    /\ rc_op = "send_frame"
    /\ rc_result = Err("Not connected")
    /\ ~is_connected(rc_stream)
    /\ Len(rc_peers) = 1
    /\ rc_peers[1] # << >>
    /\ \E f \in StreamFrames : rc_peers[1] = RenderFrame_encode(f)


---------------------------------------------------------------------------
(* Rebinding, the parent chain and the short payloads                      *)

\* C32: after any sequence of requests object id 1 is still bound to
\* wl_display and every id keeps the interface it was first bound to, so
\* that sync and get_registry sent to object 1 are answered at every point.
C32_BindingsArePermanent ==
    /\ objects[1] = "wl_display"
    /\ [][ \A k \in DOMAIN objects :
              k \in DOMAIN objects' /\ objects'[k] = objects[k] ]_vars

\* object 1 was rebound to wl_callback and a later sync on object 1 got no
\* reply
DisplayLost ==
    /\ request.some
    /\ request.msg = Message_new(1, 0, to_le_bytes(2))
    /\ interface = "wl_callback"
    /\ objects[1] = "wl_callback"
    /\ responses = << >>

\* An id is rebound only when a request names it as its new id: every entry
\* other than the one named in payload[0..4] or in the last four octets of
\* the payload keeps its interface.
OnlyNamedIdsRebound ==
    [][ (request = None /\ request'.some) =>
          \A k \in DOMAIN objects :
              objects'[k] # objects[k] =>
                  /\ Len(request'.msg.payload) >= 4
                  /\ \/ k = from_le_bytes(request'.msg.payload, 1)
                     \/ k = from_le_bytes(request'.msg.payload,
                                          Len(request'.msg.payload) - 3)
      ]_vars


\* the payload of an xdg_toplevel.configure event: 1920, 1080, no states
ToplevelConfigure == to_le_bytes(1920) \o to_le_bytes(1080) \o to_le_bytes(0)

\* the request being handled binds some id to iface that was not bound to it
Newly(iface) ==
    \E k \in DOMAIN objects' :
        objects'[k] = iface /\ (k \notin DOMAIN objects \/ objects[k] # iface)

\* C33: an id is bound to wl_registry only by get_registry on a wl_display
\* object, to a global's interface only by bind on a wl_registry object, to
\* xdg_surface only by get_xdg_surface on an xdg_wm_base object and to
\* xdg_toplevel only by get_toplevel on an xdg_surface object; hence no
\* toplevel configure is emitted unless get_registry, a bind of xdg_wm_base
\* and get_xdg_surface were handled earlier, in that order.
C33_ParentChain ==
    [][ (request = None /\ request'.some) =>
          LET opcode == request'.msg.opcode
          IN  /\ Newly("wl_registry") => (interface' = "wl_display" /\ opcode = 1)
              /\ \A i \in 1..Len(globals) :
                    Newly(globals[i].interface) =>
                        (interface' = "wl_registry" /\ opcode = 0)
              /\ Newly("xdg_surface") => (interface' = "xdg_wm_base" /\ opcode = 2)
              /\ Newly("xdg_toplevel") => (interface' = "xdg_surface" /\ opcode = 1)
              /\ (\E i \in 1..Len(responses') :
                     responses'[i].payload = ToplevelConfigure) => chain = 3
      ]_vars

\* a toplevel configure was emitted, after the chain was walked and the
\* registry's id was bound again as something else
C33_Witness ==
    /\ request.some
    /\ Len(responses) = 2
    /\ responses[1].payload = ToplevelConfigure
    /\ chain = 3
    /\ \A k \in DOMAIN objects : objects[k] # "wl_registry"


\* C34: every reply record the engine emits, for any request and any
\* history, has a payload whose length is a multiple of 4 and a total size
\* in [8, 65535], so that its encoded size field equals its real length.
C34_RepliesAlignedAndSized ==
    \A i \in 1..Len(responses) :
        /\ Len(responses[i].payload) % 4 = 0
        /\ wire_size(responses[i]) >= HEADER_SIZE
        /\ wire_size(responses[i]) < U16
        /\ half_at(Message_encode(responses[i]), 7) = Len(Message_encode(responses[i]))

\* the output-info sequence was emitted: its geometry record carries two
\* padded strings and is the longest reply of the engine (64 octets)
C34_Witness ==
    /\ request.some
    /\ Len(responses) = 4
    /\ responses[1].payload = GeometryPayload
    /\ wire_size(responses[1]) = 64
    /\ wire_size(responses[4]) = HEADER_SIZE


\* the payload length below which the handler of (iface, opcode) does nothing
MinimumPayload(iface, opcode) ==
    CASE iface = "wl_display" /\ opcode = 0 -> 4
      [] iface = "wl_display" /\ opcode = 1 -> 4
      [] iface = "wl_compositor" /\ opcode = 0 -> 4
      [] iface = "xdg_surface" /\ opcode = 1 -> 4
      [] iface = "wl_registry" /\ opcode = 0 -> 8
      [] iface = "wl_shm" /\ opcode = 0 -> 8
      [] iface = "xdg_wm_base" /\ opcode = 2 -> 8
      [] OTHER -> 0

\* C35: a handled request whose payload is shorter than its handler's
\* minimum (4 octets for sync, get_registry, create_surface and get_toplevel;
\* 8 for bind, create_pool and get_xdg_surface) returns zero replies and
\* leaves the object table unchanged.
C35_ShortPayloadIsNoOp ==
    [][ (/\ request = None
         /\ request'.some
         /\ Len(request'.msg.payload)
                < MinimumPayload(interface', request'.msg.opcode)) =>
              /\ responses' = << >>
              /\ objects' = objects
      ]_vars

\* get_xdg_surface with seven octets was handled on a bound xdg_wm_base and
\* did nothing
C35_Witness ==
    /\ Dispatched("xdg_wm_base", 2, 7)
    /\ Len(request.msg.payload) = 7
    /\ responses = << >>
    /\ \A k \in DOMAIN objects : objects[k] # "xdg_surface"

\* a bind of an existing global with one word only did nothing
C35_ShortBind ==
    /\ Dispatched("wl_registry", 0, 4)
    /\ Len(request.msg.payload) = 4
    /\ FirstWord \in 1..9
    /\ responses = << >>
    /\ DOMAIN objects = { 1, 2 }

\* a sync with three octets did nothing
C35_ShortSync ==
    /\ Dispatched("wl_display", 0, 3)
    /\ Len(request.msg.payload) = 3
    /\ responses = << >>

---------------------------------------------------------------------------
(* Failed operations of the frame forwarder                                *)

\* C38: a failed RenderClient operation leaves the connection state as it
\* was: a connect() that fails keeps the previous stream (or the absence of
\* one) and opens nothing, and a send_frame() whose write fails keeps the
\* stream, so that is_connected() is still true, no connection is opened and
\* the frame is not written a second time.
C38_FailureKeepsConnectionState ==
    [][ /\ (ClientCall("connect") /\ rc_result' # Unit) =>
              /\ rc_stream' = rc_stream
              /\ is_connected(rc_stream') = is_connected(rc_stream)
              /\ rc_peers' = rc_peers
        /\ (ClientCall("send_frame") /\ is_connected(rc_stream)
              /\ rc_result' # Unit) =>
              /\ rc_stream' = rc_stream
              /\ is_connected(rc_stream')
              /\ Len(rc_peers') = Len(rc_peers)
              /\ \A k \in 1..Len(rc_peers) :
                    k # rc_stream => rc_peers'[k] = rc_peers[k]
              /\ \E cut \in 0..Len(RenderFrame_encode(rc_frame')) :
                    rc_peers'[rc_stream] =
                        rc_peers[rc_stream]
                            \o SubSeq(RenderFrame_encode(rc_frame'), 1, cut)
      ]_vars

\* a connect() failed on a client that held a stream, and the stream it held
\* is still the one of the first connection
C38_Witness ==
    /\ rc_op = "connect"
    /\ rc_result = Err("io")
    /\ is_connected(rc_stream)
    /\ rc_stream = 1
    /\ Len(rc_peers) = 1

\* a write failed after five octets and the client is still connected to the
\* connection that holds those five octets
C38_FailedWrite ==
    /\ rc_op = "send_frame"
    /\ rc_result = Err("io")
    /\ is_connected(rc_stream)
    /\ Len(rc_peers) = 1
    /\ Len(rc_peers[rc_stream]) = 5



---------------------------------------------------------------------------
(* The pixel stream cut anywhere, garbage included                         *)

\* garbage that does not hold the magic: four foreign octets, parts of the
\* magic, and runs one octet below and above the header size
ChunkGarbage == { g \in Garbage : ~HasMagic(g) }

FrameChunksInit ==
    /\ CodecIdle
    /\ DecoderNew(<< >>, << >>)
    /\ CompositorNew
    /\ LibIdle
    /\ ServerIdle
    /\ FrameIdle
    /\ ClientNew
    /\ \E g \in ChunkGarbage, f \in StreamFrames : FrameDecoderNew(g, << f >>)

\* decoder.push(chunk): the next n octets of the stream, garbage and frame
\* cut alike; the caller has called decode() until it returned None and
\* consumed nothing
FramePushChunk(n) ==
    /\ fd_op \in { "new", "idle" }
    /\ n >= 1
    /\ n <= Len(fd_pending)
    /\ fd_buffer' = FrameDecoder_push(fd_buffer, SubSeq(fd_pending, 1, n))
    /\ fd_pending' = SubSeq(fd_pending, n + 1, Len(fd_pending))
    /\ fd_op' = "push"
    /\ UNCHANGED << libVars, fd_garbage, fd_frames, fd_received, fd_result, frameVars,
                    clientVars, codecVars, decoderVars, compVars, serverVars >>

FrameChunksNext ==
    \/ \E n \in (1..MaxChunk) \cup { Len(fd_garbage), Len(fd_pending) } :
           FramePushChunk(n)
    \/ FramePop

SpecFrameChunks == FrameChunksInit /\ [][FrameChunksNext]_vars

\* C36: for garbage g that does not contain "WPRD" and a valid frame f,
\* delivering g followed by encode(f) in any partition into chunks, with
\* decode() called repeatedly after each push, yields f, including when a
\* chunk boundary falls inside the four octets of the magic.
C36_ResyncAnyChunking ==
    (~HasMagic(fd_garbage) /\ FrameDrained) => fd_received = fd_frames

\* 19 octets of garbage and the first two octets of the magic were pushed
\* together and cleared together; the rest of the frame arrived and no frame
\* came out
SplitMagicLost ==
    /\ fd_garbage = Fill(19, 0)
    /\ FrameDrained
    /\ fd_received = << >>
    /\ Len(fd_frames) = 1

\* what holds of every partition: nothing but f is returned, and f is when
\* the garbage is shorter than the header by more than the magic
NoForeignFrame ==
    /\ IsPrefix(fd_received, fd_frames)
    /\ (Len(fd_garbage) <= 16 /\ FrameDrained) => fd_received = fd_frames

\* the buffer starts with the octets of a whole frame
StartsWithFrame(buf) ==
    /\ Len(buf) >= FRAME_HEADER_SIZE
    /\ SubSeq(buf, 1, 4) = FRAME_MAGIC
    /\ Len(buf) >= FRAME_HEADER_SIZE + from_le_bytes(buf, 17)
    /\ RenderFrame_decode(
           SubSeq(buf, 1, FRAME_HEADER_SIZE + from_le_bytes(buf, 17))).ok

\* C37: whenever FrameDecoder::decode() returns None, the buffer does not
\* start with a complete valid frame, so that a caller that stops calling
\* decode() at the first None has received every frame that was decodable
\* from the octets pushed so far.
C37_NoneMeansNoFrameBuffered ==
    (fd_op \in { "decode", "idle" } /\ fd_result = None) =>
        ~StartsWithFrame(fd_buffer)

\* decode() skipped four octets of garbage and returned None with the whole
\* frame at the front of the buffer
NoneWithFrameBuffered ==
    /\ fd_op = "decode"
    /\ fd_result = None
    /\ fd_garbage = << 222, 173, 190, 239 >>
    /\ Len(fd_frames) = 1
    /\ fd_buffer = RenderFrame_encode(fd_frames[1])
    /\ fd_received = << >>

\* on a stream of frames only, and whenever decode() consumed nothing, None
\* does mean that no whole frame is buffered
NoneAfterFramesOnly ==
    (fd_result = None /\ (fd_op = "idle" \/ (fd_op = "decode" /\ fd_garbage = << >>))) =>
        ~StartsWithFrame(fd_buffer)


---------------------------------------------------------------------------
(* A MirrorBuffer and its mirror on the other side                         *)

\* everything but the library parts at rest
CoreIdle ==
    /\ CodecIdle
    /\ DecoderNew(<< >>, << >>)
    /\ CompositorNew
    /\ ServerIdle
    /\ RenderIdle

\* both sides build the buffer with the same call
MirrorInit ==
    /\ CoreIdle
    /\ LoopIdle
    /\ compression = "None"
    /\ ChannelNew
    /\ mirror \in InitialBuffers
    /\ replica = mirror
    /\ delta = None
    /\ delta_src = mirror
    /\ mb_panic = FALSE
    /\ mb_op = "new"
    /\ mb_updates = 0
    /\ mb_regions = 0

\* buffer.update(&data)
MirrorUpdate(data) ==
    /\ ~mb_panic
    /\ mb_updates < MaxUpdates
    /\ mirror' = MirrorBuffer_update(mirror, data)
    /\ mb_op' = "update"
    /\ mb_updates' = mb_updates + 1
    /\ UNCHANGED << replica, delta, delta_src, mb_panic, mb_regions, loopVars, channelVars,
                    codecVars, decoderVars, compVars, serverVars, renderVars >>

\* let delta = buffer.calculate_delta(); delta_src keeps the buffer the call
\* was made on. A second call on a buffer that has not changed returns the
\* same value.
CalculateDelta ==
    /\ ~mb_panic
    /\ mb_op # "calculate_delta" \/ delta_src # mirror
    /\ \E r \in { calculate_delta(mirror) } :
           /\ delta' = r.ret
           /\ mb_panic' = r.panic
    /\ delta_src' = mirror
    /\ mb_op' = "calculate_delta"
    /\ UNCHANGED << mirror, replica, mb_updates, mb_regions, loopVars, channelVars, codecVars,
                    decoderVars, compVars, serverVars, renderVars >>

\* buffer.update_region(x, y, width, height, &data) called by itself on the
\* buffer of one side, in a build with overflow checks or without. mb_op
\* keeps the last call of the exchange of deltas.
UpdateRegion(side, x, y, width, height, data, checked) ==
    /\ ~mb_panic
    /\ mb_regions < MaxRegionCalls
    /\ \E b \in { IF side = "mirror" THEN mirror ELSE replica } :
         \E r \in { update_region(b, x, y, width, height, data, checked) } :
              /\ mirror' = IF side = "mirror" THEN r.buf ELSE mirror
              /\ replica' = IF side = "mirror" THEN replica ELSE r.buf
              /\ mb_panic' = r.panic
    /\ mb_regions' = mb_regions + 1
    /\ UNCHANGED << delta, delta_src, mb_op, mb_updates, loopVars, channelVars,
                    codecVars, decoderVars, compVars, serverVars, renderVars >>

\* buffer.clear_dirty() on the buffer of one side
ClearDirty(side) ==
    /\ ~mb_panic
    /\ mirror' = IF side = "mirror" THEN clear_dirty(mirror) ELSE mirror
    /\ replica' = IF side = "mirror" THEN replica ELSE clear_dirty(replica)
    /\ UNCHANGED << delta, delta_src, mb_panic, mb_op, mb_updates, mb_regions,
                    loopVars, channelVars, codecVars, decoderVars, compVars, serverVars,
                    renderVars >>

\* other.apply_delta(&delta), in a build with overflow checks or without
ApplyDelta(checked) ==
    /\ ~mb_panic
    /\ mb_op = "calculate_delta"
    /\ delta.some
    /\ \E r \in { apply_delta(replica, delta.msg, checked) } :
           /\ replica' = r.buf
           /\ mb_panic' = r.panic
    /\ mb_op' = "apply_delta"
    /\ UNCHANGED << mirror, delta, delta_src, mb_updates, mb_regions, loopVars, channelVars,
                    codecVars, decoderVars, compVars, serverVars, renderVars >>

MirrorNext ==
    \/ \E data \in UpdateData(mirror) : MirrorUpdate(data)
    \/ CalculateDelta
    \/ \E checked \in BOOLEAN : ApplyDelta(checked)
    \/ \E side \in Sides, c \in RegionCalls, checked \in BOOLEAN :
           UpdateRegion(side, c[1], c[2], c[3], c[4], c[5], checked)
    \/ \E side \in Sides : ClearDirty(side)

SpecMirror == MirrorInit /\ [][MirrorNext]_vars

\* the first width x bpp octets of row y of data; -1 where the data ends
\* before the octet
Visible(b, data, y) ==
    [i \in 1..(b.width * b.bpp) |->
        IF (y * b.stride) + i <= Len(data) THEN data[(y * b.stride) + i] ELSE -1]

Rows(b) == 0..(b.height - 1)

\* the rows that differ from the previous contents
ChangedRows(b) ==
    { y \in Rows(b) : Visible(b, b.data, y) # Visible(b, b.prev_data.msg, y) }

RowsOf(region) == region.y..(region.y + region.height - 1)

\* the regions are disjoint, in ascending y, and cover exactly the rows of S
CoverExactly(regions, S) ==
    /\ \A i \in 1..Len(regions) : regions[i].height >= 1
    /\ \A i \in 1..(Len(regions) - 1) :
          regions[i].y + regions[i].height <= regions[i + 1].y
    /\ UNION { RowsOf(regions[i]) : i \in 1..Len(regions) } = S

\* calculate_delta() returned, and what it returned is the delta of the
\* buffer it was called on
DeltaIsOfChangedRows ==
    /\ ~calculate_delta(delta_src).panic
    /\ delta = None <=> ChangedRows(delta_src) = { }
    /\ delta.some => CoverExactly(delta.msg.regions, ChangedRows(delta_src))

\* apply_delta() has made the replica equal to the buffer the delta was
\* calculated on in every row's first width x bpp octets and has left no
\* dirty region
ReplicaInSync ==
    /\ ~mb_panic'
    /\ \A y \in Rows(delta_src) :
          Visible(replica', replica'.data, y) = Visible(delta_src, delta_src.data, y)
    /\ replica'.dirty_regions = << >>

\* C40: for a MirrorBuffer with stride >= width x bpp whose contents were
\* changed by update(), calculate_delta() returns None iff no row differs
\* from the previous contents within its first width x bpp octets, and
\* otherwise regions that are disjoint, in ascending y and cover exactly the
\* changed rows; applying that delta with apply_delta() to a buffer holding
\* the previous contents makes every row equal to the current contents
\* within its first width x bpp octets and leaves no dirty regions.
C40_DeltaCoversChangedRows ==
    /\ []( (mb_op = "calculate_delta" /\ delta_src.prev_data.some
              /\ delta_src.stride >= delta_src.width * delta_src.bpp)
            => DeltaIsOfChangedRows )
    /\ [][ (mb_op' = "apply_delta" /\ mb_op = "calculate_delta"
              /\ delta_src.stride >= delta_src.width * delta_src.bpp
              /\ replica.data = delta_src.prev_data.msg)
            => ReplicaInSync ]_vars

\* calculate_delta() panicked on a buffer built by from_data() with one octet
\* for two rows of stride 2
DeltaPanicked ==
    /\ mb_panic
    /\ mb_op = "calculate_delta"
    /\ delta_src = mirror
    /\ calculate_delta(mirror).panic
    /\ mirror.height = 2
    /\ Len(mirror.data) = 1

\* a delta whose one region holds no data was applied and the replica still
\* holds the previous contents
DeltaWithoutData ==
    /\ mb_op = "apply_delta"
    /\ ~mb_panic
    /\ delta.some
    /\ delta.msg.regions[1].data = << >>
    /\ delta_src.data = << 255 >>
    /\ replica.data = << 0 >>

\* the buffer's data is stride x height octets, as MirrorBuffer::new makes it
Sized(b) == Len(b.data) = b.stride * b.height

\* the same for buffers whose data is stride x height octets
DeltaOfSizedBuffer ==
    /\ []( (mb_op = "calculate_delta" /\ delta_src.prev_data.some
              /\ Sized(delta_src))
            => DeltaIsOfChangedRows )
    /\ [][ (mb_op' = "apply_delta" /\ mb_op = "calculate_delta"
              /\ Sized(delta_src)
              /\ replica.data = delta_src.prev_data.msg)
            => ReplicaInSync ]_vars

\* two separate regions were applied to a replica that held the previous
\* contents of a buffer with padding, and the rows are equal again
TwoRegionsApplied ==
    /\ mb_op = "apply_delta"
    /\ ~mb_panic
    /\ delta_src.stride > delta_src.width * delta_src.bpp
    /\ Sized(delta_src)
    /\ delta.some
    /\ Len(delta.msg.regions) = 2
    /\ replica.data = delta_src.data
    /\ replica.dirty_regions = << >>


---------------------------------------------------------------------------
(* The read loop of handle_client on long streams                          *)

Item(size, len) == [size |-> size, len |-> len]

\* two records of the largest size and a small one; a small record first; a
\* 16-octet item with the size field 4 between two records; a header that
\* announces 65535 octets and is followed by records
LongStreams ==
    { << Item(65535, 65535), Item(65535, 65535), Item(12, 12) >>,
      << Item(8, 8), Item(65535, 65535), Item(65535, 65535) >>,
      << Item(65535, 65535), Item(4, 16), Item(65535, 65535) >>,
      << Item(65535, 8), Item(65535, 65535), Item(65535, 65535) >> }

\* the numbers of octets one read may return, besides all that is there
ReadLens == { 1, 8, 12, 4096, 65527, 65534, 65535, 65536 }

\* let mut decoder = WireDecoder::new(); the client's stream is in flight
LoopInit ==
    /\ CoreIdle
    /\ compression = "None"
    /\ ChannelNew
    /\ MirrorIdle
    /\ lp_items \in LongStreams
    /\ lp_lo = 0
    /\ lp_hi = 0
    /\ lp_pc = "read"
    /\ lp_result = None
    /\ lp_reads = 0

\* let n = stream.read(&mut buffer).await?; decoder.push(&buffer[..n]);
\* n is at most the size of the read buffer
LoopRead(n) ==
    /\ lp_pc = "read"
    /\ n >= 1
    /\ n <= stream_len(lp_items) - lp_hi
    /\ n <= READ_BUFFER_SIZE
    /\ \/ lp_reads + 1 < MaxReads
       \/ n = min(stream_len(lp_items) - lp_hi, READ_BUFFER_SIZE)
    /\ lp_hi' = lp_hi + n
    /\ lp_pc' = "decode"
    /\ lp_reads' = lp_reads + 1
    /\ UNCHANGED << lp_items, lp_lo, lp_result, channelVars, mirrorVars,
                    codecVars, decoderVars, compVars, serverVars, renderVars >>

\* the read returns 0 at the end of the stream: return Ok(())
LoopReadZero ==
    /\ lp_pc = "read"
    /\ lp_hi = stream_len(lp_items)
    /\ lp_pc' = "closed"
    /\ UNCHANGED << lp_items, lp_lo, lp_hi, lp_result, lp_reads, channelVars,
                    mirrorVars, codecVars, decoderVars, compVars, serverVars,
                    renderVars >>

\* while let Some(msg) = decoder.decode(): one turn. The records of these
\* streams name object 4 or, read across a boundary, object 0, which no
\* engine has bound: handle_message returns nothing and nothing is written.
LoopDecode ==
    /\ lp_pc = "decode"
    /\ \E d \in { window_decode(lp_items, lp_lo, lp_hi) } :
           /\ lp_lo' = d.lo
           /\ lp_result' = d.ret
           /\ lp_pc' = IF d.ret.some THEN "decode" ELSE "read"
    /\ UNCHANGED << lp_items, lp_hi, lp_reads, channelVars, mirrorVars,
                    codecVars, decoderVars, compVars, serverVars, renderVars >>

LoopNext ==
    \/ \E n \in ReadLens \cup { stream_len(lp_items) - lp_hi, READ_BUFFER_SIZE } :
           LoopRead(n)
    \/ LoopReadZero
    \/ LoopDecode

SpecLoop == LoopInit /\ [][LoopNext]_vars

\* decoder.buffered()
lp_buffered == lp_hi - lp_lo

\* C31: in the connection loop, where each read pushes at most 65536 octets
\* and the decoder is then drained until decode() returns None, the
\* decoder's buffered length never exceeds 2 x MAX_MESSAGE_SIZE, and is
\* below MAX_MESSAGE_SIZE every time the loop goes back to read.
C31_BufferBounded ==
    /\ lp_buffered <= 2 * MAX_MESSAGE_SIZE
    /\ lp_pc = "read" => lp_buffered < MAX_MESSAGE_SIZE

\* 65534 octets of a record of 65535 were waiting and a read of 65536 octets
\* was pushed behind them
C31_Witness ==
    /\ lp_pc = "decode"
    /\ lp_buffered = 131070
    /\ lp_reads = 2

\* the loop went back to read with all but one octet of the largest record
C31_AlmostARecord ==
    /\ lp_pc = "read"
    /\ lp_buffered = 65534
    /\ lp_reads >= 1

\* the bound that is reached: a partial record and one full read
LoopBufferTight == lp_buffered <= (MAX_MESSAGE_SIZE - 2) + READ_BUFFER_SIZE


---------------------------------------------------------------------------
(* Server::run, the tasks running Connection::run, and the event channel   *)

\* what the two clients send: two records and one, one and none
ChannelScripts ==
    { << << Message_new(1, 0, << 1, 0, 0, 0 >>), Message_new(1, 1, << 2, 0, 0, 0 >>) >>,
         << Message_new(1, 1, << 2, 0, 0, 0 >>) >> >>,
      << << Message_new(1, 1, << 2, 0, 0, 0 >>) >>, << >> >> }

\* the capacities the channel is made with: mpsc::channel(1), mpsc::channel(2)
Capacities == { 1, 2 }

\* what decompress_size_prepended may return for the octets of one read: an
\* error, no octets, or the octets of one record
Lz4Results ==
    { Err("lz4"), Ok(<< >>), Ok(Message_encode(Message_new(3, 0, << >>))) }

\* Server::bind; every client has sent its records and none is accepted yet
ChannelInit ==
    /\ CoreIdle
    /\ LoopIdle
    /\ MirrorIdle
    /\ compression \in { "None", "Fast" }
    /\ next_client_id = 1
    /\ acceptor = 0
    /\ accept_errors = 0
    /\ capacity \in Capacities
    /\ events = << >>
    /\ taken = 0
    /\ waiters = << >>
    /\ rx_closed = FALSE
    /\ conn_script \in { [c \in Clients |-> IF c <= 2 THEN s[c] ELSE << >>] :
                            s \in ChannelScripts }
    /\ conn_stream = [c \in Clients |-> encode_batch(conn_script[c])]
    /\ conn_decoder = [c \in Clients |-> << >>]
    /\ conn_data = [c \in Clients |-> << >>]
    /\ conn_pc = [c \in Clients |-> "none"]
    /\ conn_inflated = [c \in Clients |-> FALSE]

\* everything but the channel and the connections
restVars == << loopVars, mirrorVars, codecVars, decoderVars, compVars, serverVars,
               renderVars >>

\* Server::accept returns the next connection: it takes next_client_id
ServerAccept ==
    /\ acceptor = 0
    /\ next_client_id \in Clients
    /\ acceptor' = next_client_id
    /\ next_client_id' = next_client_id + 1    \* wrapping_add(1), far from 2^32
    /\ accept_errors' = 0
    /\ UNCHANGED << compression, capacity, events, taken, waiters,
                    rx_closed, conn_script, conn_stream, conn_decoder, conn_data,
                    conn_pc, conn_inflated, restVars >>

\* Server::accept returns an error while a client is still to come: it is
\* logged and the loop goes on
AcceptFails ==
    /\ acceptor = 0
    /\ next_client_id \in Clients
    /\ accept_errors < 1
    /\ accept_errors' = accept_errors + 1
    /\ UNCHANGED << compression, next_client_id, acceptor, capacity, events, taken,
                    waiters, rx_closed, conn_script, conn_stream, conn_decoder,
                    conn_data, conn_pc, conn_inflated, restVars >>

\* the first poll of tx.send(event).await by a task: "err" when the receiver
\* is gone, "ok" when a slot is free that no waiting send holds, "wait"
\* otherwise
first_poll(task_id, event) ==
    IF rx_closed THEN "err"
    ELSE IF FreeSlots(capacity, events, taken) > Len(waiters) THEN "ok"
    ELSE "wait"

\* what the first poll of a send leaves of the channel
SendPolled(task_id, event) ==
    /\ events' = IF first_poll(task_id, event) = "ok"
                 THEN tx_send(events, rx_closed, event).events
                 ELSE events
    /\ waiters' = IF first_poll(task_id, event) = "wait"
                  THEN Append(waiters, [task |-> task_id, event |-> event])
                  ELSE waiters

\* let _ = tx.send(Connected { id }).await; tokio::spawn(...): the send
\* completes or fails at once and the task is spawned, or Server::run waits
\* for room
SendConnected ==
    /\ acceptor # 0
    /\ ~Waiting(waiters, 0)
    /\ SendPolled(0, Connected(acceptor))
    /\ IF first_poll(0, Connected(acceptor)) = "wait"
       THEN UNCHANGED << conn_pc, acceptor >>
       ELSE /\ conn_pc' = [conn_pc EXCEPT ![acceptor] = "read"]
            /\ acceptor' = 0
    /\ UNCHANGED << compression, next_client_id, accept_errors, capacity, taken,
                    rx_closed, conn_script, conn_stream, conn_decoder, conn_data,
                    conn_inflated, restVars >>

\* Connection::run: a read of n octets, decompressed when the configuration
\* says so and decompress succeeds, pushed into the decoder. A client's first
\* read returns 5 octets or all it sent, a later one what is left;
\* decompress succeeds at most once per client, on an empty decoder.
ConnRead(c, n, lz4) ==
    /\ conn_pc[c] = "read"
    /\ n >= 1
    /\ n <= Len(conn_stream[c])
    /\ compression = "None" => lz4 = Err("lz4")
    /\ lz4.ok => ~conn_inflated[c] /\ conn_decoder[c] = << >>
    /\ n = Len(conn_stream[c]) \/ conn_stream[c] = encode_batch(conn_script[c])
    /\ \E data \in { received_data(compression, SubSeq(conn_stream[c], 1, n), lz4) } :
           /\ conn_data' = [conn_data EXCEPT ![c] = data]
           /\ conn_decoder' = [conn_decoder EXCEPT ![c] = WireDecoder_push(@, data)]
           /\ conn_inflated' = [conn_inflated EXCEPT ![c] =
                                   @ \/ data # SubSeq(conn_stream[c], 1, n)]
    /\ conn_stream' = [conn_stream EXCEPT ![c] = SubSeq(@, n + 1, Len(@))]
    /\ conn_pc' = [conn_pc EXCEPT ![c] = "decode"]
    /\ UNCHANGED << compression, next_client_id, acceptor, accept_errors, capacity,
                    events, taken, waiters, rx_closed, conn_script, restVars >>

\* Connection::run: the read returns 0 at the end of the stream, or fails
\* while part of a record is buffered: run returns
ConnReadEnds(c, failed) ==
    /\ conn_pc[c] = "read"
    /\ IF failed THEN conn_decoder[c] # << >> ELSE conn_stream[c] = << >>
    /\ conn_pc' = [conn_pc EXCEPT ![c] = "finished"]
    /\ UNCHANGED << compression, next_client_id, acceptor, accept_errors, capacity,
                    events, taken, waiters, rx_closed, conn_script, conn_stream,
                    conn_decoder, conn_data, conn_inflated, restVars >>

\* while let Some(msg) = self.decoder.decode() { tx.send(Message).await }: one
\* turn. The record is taken off the decoder and the send is polled: it
\* completes, or it fails and run returns, or the task waits for room with
\* the record in hand
ConnDecode(c) ==
    /\ conn_pc[c] = "decode"
    /\ ~Waiting(waiters, c)
    /\ \E d \in { WireDecoder_decode(conn_decoder[c]) } :
           /\ conn_decoder' = [conn_decoder EXCEPT ![c] = d.buffer]
           /\ IF d.ret.some
              THEN /\ SendPolled(c, MessageEvent(c, d.ret.msg))
                   /\ conn_pc' = [conn_pc EXCEPT ![c] =
                         IF first_poll(c, MessageEvent(c, d.ret.msg)) = "err"
                         THEN "finished" ELSE "decode"]
              ELSE /\ UNCHANGED << events, waiters >>
                   /\ conn_pc' = [conn_pc EXCEPT ![c] = "raw"]
    /\ UNCHANGED << compression, next_client_id, acceptor, accept_errors, capacity,
                    taken, rx_closed, conn_script, conn_stream, conn_data,
                    conn_inflated, restVars >>

\* if !data.is_empty() { let _ = tx.send(RawData { id, data }).await; }
ConnRawData(c) ==
    /\ conn_pc[c] = "raw"
    /\ ~Waiting(waiters, c)
    /\ IF conn_data[c] # << >>
       THEN /\ SendPolled(c, RawData(c, conn_data[c]))
            /\ conn_pc' = [conn_pc EXCEPT ![c] =
                  IF first_poll(c, RawData(c, conn_data[c])) = "wait"
                  THEN "raw" ELSE "read"]
       ELSE /\ UNCHANGED << events, waiters >>
            /\ conn_pc' = [conn_pc EXCEPT ![c] = "read"]
    /\ UNCHANGED << compression, next_client_id, acceptor, accept_errors, capacity,
                    taken, rx_closed, conn_script, conn_stream, conn_decoder,
                    conn_data, conn_inflated, restVars >>

\* the task, after conn.run returned: let _ = tx.send(Disconnected { id }).await
SendDisconnected(c) ==
    /\ conn_pc[c] = "finished"
    /\ ~Waiting(waiters, c)
    /\ SendPolled(c, Disconnected(c))
    /\ conn_pc' = [conn_pc EXCEPT ![c] =
          IF first_poll(c, Disconnected(c)) = "wait" THEN "finished" ELSE "closed"]
    /\ UNCHANGED << compression, next_client_id, acceptor, accept_errors, capacity,
                    taken, rx_closed, conn_script, conn_stream, conn_decoder,
                    conn_data, conn_inflated, restVars >>

\* where the task of a send goes on when the send is over: Server::run spawns
\* the connection task and accepts again; Connection::run stays in the
\* while-let loop after a Message and returns when that send failed, goes
\* back to read after RawData; the task ends after Disconnected
SendOver(w, ok) ==
    /\ conn_pc' = [conn_pc EXCEPT ![w.event.id] =
          IF w.event.type = "Connected" THEN "read"
          ELSE IF w.event.type = "Message" THEN (IF ok THEN "decode" ELSE "finished")
          ELSE IF w.event.type = "RawData" THEN "read"
          ELSE "closed"]
    /\ acceptor' = IF w.task = 0 THEN 0 ELSE acceptor

\* a later poll of a waiting send, the i-th in line: the receiver has made
\* room for it and the event is queued, or the receiver is gone and the send
\* fails
SendWakes(i) ==
    /\ i \in 1..Len(waiters)
    /\ rx_closed \/ i <= FreeSlots(capacity, events, taken)
    /\ \E r \in { tx_send(events, rx_closed, waiters[i].event) } :
           /\ events' = r.events
           /\ SendOver(waiters[i], r.ok)
    /\ waiters' = SubSeq(waiters, 1, i - 1) \o SubSeq(waiters, i + 1, Len(waiters))
    /\ UNCHANGED << compression, next_client_id, accept_errors, capacity, taken,
                    rx_closed, conn_script, conn_stream, conn_decoder, conn_data,
                    conn_inflated, restVars >>

\* the consumer takes the oldest event out of the channel: rx.recv().await
Receive ==
    /\ ~rx_closed
    /\ taken < Len(events)
    /\ taken' = taken + 1
    /\ UNCHANGED << compression, next_client_id, acceptor, accept_errors, capacity,
                    events, waiters, rx_closed, conn_script, conn_stream,
                    conn_decoder, conn_data, conn_pc, conn_inflated, restVars >>

\* the consumer of the events drops the receiver
DropReceiver ==
    /\ ~rx_closed
    /\ rx_closed' = TRUE
    /\ UNCHANGED << compression, next_client_id, acceptor, accept_errors, capacity,
                    events, taken, waiters, conn_script, conn_stream, conn_decoder,
                    conn_data, conn_pc, conn_inflated, restVars >>

ChannelNext ==
    \/ ServerAccept
    \/ AcceptFails
    \/ SendConnected
    \/ \E c \in Clients, lz4 \in Lz4Results :
           \E n \in { 5, Len(conn_stream[c]) } : ConnRead(c, n, lz4)
    \/ \E c \in Clients, failed \in BOOLEAN : ConnReadEnds(c, failed)
    \/ \E c \in Clients : ConnDecode(c)
    \/ \E c \in Clients : ConnRawData(c)
    \/ \E c \in Clients : SendDisconnected(c)
    \/ \E i \in 1..(MaxClients + 1) : SendWakes(i)
    \/ Receive
    \/ DropReceiver

SpecChannel == ChannelInit /\ [][ChannelNext]_vars


\* the Message events among evs, as their records
RECURSIVE messages_of(_)
messages_of(evs) ==
    IF evs = << >> THEN << >>
    ELSE IF Head(evs).type = "Message"
    THEN << Head(evs).msg >> \o messages_of(Tail(evs))
    ELSE messages_of(Tail(evs))

\* the ids of the Connected events among evs
RECURSIVE connected_ids(_)
connected_ids(evs) ==
    IF evs = << >> THEN << >>
    ELSE IF Head(evs).type = "Connected"
    THEN << Head(evs).id >> \o connected_ids(Tail(evs))
    ELSE connected_ids(Tail(evs))

\* the events of one client are Connected, then Message and RawData events,
\* then at most one Disconnected
WellBracketed(evs, id) ==
    evs # << >> =>
        /\ evs[1] = Connected(id)
        /\ \A i \in 2..Len(evs) :
              /\ evs[i].type # "Connected"
              /\ evs[i].type = "Disconnected" => i = Len(evs)

\* C39: for every client accepted by Server::run, under every interleaving of
\* the connection tasks, the event channel carries exactly one Connected{id}
\* before any Message{id} or RawData{id} event of that client and exactly one
\* Disconnected{id} after all of them, the Message events of one client
\* appear in the order their records arrived, and client ids are assigned
\* 1, 2, 3, ... in accept order. What the channel carries is what was sent
\* while its receiver was there.
C39_EventsBracketedAndOrdered ==
    /\ \A id \in Clients :
          LET evs == events_of(events, id)
          IN  /\ WellBracketed(evs, id)
              /\ (~rx_closed /\ conn_pc[id] # "none") => evs # << >>
              /\ (evs # << >> /\ evs[Len(evs)].type = "Disconnected") =>
                    conn_pc[id] = "closed"
              /\ (~rx_closed /\ conn_pc[id] = "closed") =>
                    evs[Len(evs)] = Disconnected(id)
              /\ ~conn_inflated[id] => IsPrefix(messages_of(evs), conn_script[id])
              /\ (~rx_closed /\ ~conn_inflated[id] /\ conn_stream[id] = << >>
                    /\ conn_decoder[id] = << >>
                    /\ conn_pc[id] \in { "read", "finished", "closed" }) =>
                    messages_of(evs) = conn_script[id]
    /\ \A i \in 1..Len(connected_ids(events)) : connected_ids(events)[i] = i
    /\ ~rx_closed =>
          Len(connected_ids(events)) =
              IF acceptor = 0 THEN next_client_id - 1 ELSE next_client_id - 2
    /\ acceptor # 0 => acceptor = next_client_id - 1

\* both clients were served to the end while the receiver was there: client
\* 1's two records lie between its Connected and its Disconnected, and an
\* event of client 2 lies between them
C39_Witness ==
    /\ ~rx_closed
    /\ compression = "None"
    /\ conn_pc = [c \in Clients |-> "closed"]
    /\ Len(conn_script[1]) = 2
    /\ messages_of(events_of(events, 1)) = conn_script[1]
    /\ messages_of(events_of(events, 2)) = conn_script[2]
    /\ \E i, j, k \in 1..Len(events) :
          /\ i < j /\ j < k
          /\ events[i].type = "Message" /\ events[i].id = 1
          /\ events[j].id = 2
          /\ events[k].type = "Message" /\ events[k].id = 1

\* decompress returned no octets for a read: the read is followed by neither
\* a Message nor a RawData event
C39_NothingInflated ==
    /\ compression = "Fast"
    /\ ~rx_closed
    /\ conn_inflated[1]
    /\ conn_pc[1] = "closed"
    /\ events_of(events, 1) = << Connected(1), Disconnected(1) >>


\* the channel never holds more events than its capacity, and no task has
\* two sends waiting
ChannelWithinCapacity ==
    /\ taken <= Len(events)
    /\ Len(events) - taken <= capacity
    /\ \A i, j \in 1..Len(waiters) : waiters[i].task = waiters[j].task => i = j
    /\ \A i \in 1..Len(waiters) :
          IF waiters[i].task = 0
          THEN waiters[i].event = Connected(acceptor)
          ELSE waiters[i].event.id = waiters[i].task

\* the channel of capacity 1 is full of Connected{1}; the task of client 1
\* has taken a record off its decoder and waits to send it
SendWaitsForRoom ==
    /\ capacity = 1
    /\ ~rx_closed
    /\ events = << Connected(1) >>
    /\ taken = 0
    /\ conn_pc[1] = "decode"
    /\ conn_decoder[1] = << >>
    /\ Len(waiters) = 1
    /\ waiters[1].task = 1
    /\ waiters[1].event.type = "Message"

\* the receiver was dropped while that send was waiting: the send failed,
\* run returned, and the channel got nothing more
WaitingSendFailed ==
    /\ capacity = 1
    /\ rx_closed
    /\ events = << Connected(1) >>
    /\ taken = 0
    /\ waiters = << >>
    /\ conn_pc[1] = "closed"
    /\ conn_decoder[1] = << >>
    /\ conn_stream[1] = << >>
    /\ conn_script[1] # << >>

\* two sends wait for room in a channel of capacity 2, that of Server::run
\* behind that of a connection task
TwoSendsWaiting ==
    /\ capacity = 2
    /\ Len(waiters) = 2
    /\ waiters[1].task = 1
    /\ waiters[2].task = 0

=============================================================================
